---- MODULE Spec2Model ----
(***************************************************************************)
(* Lambda-calculus interpreters of the repository:                         *)
(*   Assignment2/interpreter.py  normal-order ("eager") evaluator over     *)
(*                               Var / Abs / App terms;                    *)
(*   Assignment3/interpreter.py  lazy (call-by-name, no reduction under a  *)
(*                               binder) evaluator with arithmetic.        *)
(* Terms are the code's tagged tuples: ('var', n), ('abs', n, body),       *)
(* ('app', f, a), ('num', v), ('plus'|'minus'|'times'|'div', l, r),        *)
(* ('neg', o).  A Python float is an IEEE 754 binary64 and is held         *)
(* exactly (see "Python floats" below): the arithmetic rounds to the       *)
(* nearest value, ties to even, and overflows to an infinity; a number     *)
(* prints as Python prints it.                                             *)
(* Definitions with the suffix _A2 model Assignment2, the others           *)
(* Assignment3.                                                            *)
(***************************************************************************)
EXTENDS Integers, Sequences, FiniteSets, TLC

VARIABLES
    fn,       \* the function under execution: "substitute", "substitute_A2", "evaluate",
              \* "evaluate_A2", "linearize", or "interleaved" (the evaluator of C17)
    args,     \* its arguments: <<expr, var_name, replacement>> or <<expr>>
    expr,     \* evaluate's loop variable `expr`; the return value once pc = "done"
              \* (for linearize, the string)
    pc,       \* "loop" (in the body), "done" (returned), "raised" (exception left the call)
    steps,    \* iterations of evaluate's `while True` completed by the running call
    history   \* the calls this process completed before: <<argument, result>> pairs

vars == <<fn, args, expr, pc, steps, history>>

(***************************************************************************)
(* Bounds of the model.                                                    *)
(***************************************************************************)
MaxSubstSize == 4     \* nodes of a term that substitute is called on
MaxPureSize == 7      \* nodes of an enumerated Var / Abs / App input of evaluate
MaxArithSize == 5     \* nodes of an enumerated input of evaluate with arithmetic
MaxCalcSize == 7      \* nodes of an enumerated closed calculator expression
MaxSteps == 6         \* loop iterations of one evaluate call that the model follows
MaxCalls == 3         \* calls of one process that the model follows
MaxLinSize == 5       \* nodes of a term that linearize is called on
MaxInterleavedSteps == 8  \* steps of one interleaved evaluation that the model follows

(***************************************************************************)
(* Term constructors.                                                      *)
(***************************************************************************)
Var(n) == <<"var", n>>
Abs(n, body) == <<"abs", n, body>>
App(f, a) == <<"app", f, a>>
Num(v) == <<"num", v>>
BinOp(kind, l, r) == <<kind, l, r>>
Neg(o) == <<"neg", o>>

BinOpKinds == {"plus", "minus", "times", "div"}

RECURSIVE Size(_)
Size(t) ==
    CASE t[1] \in {"var", "num"} -> 1
      [] t[1] \in {"abs", "neg"} -> 1 + Size(t[Len(t)])
      [] OTHER -> 1 + Size(t[2]) + Size(t[3])

(***************************************************************************)
(* Natural numbers beyond the range of the checker's integers: sequences   *)
(* of limbs below LimbBase, the least significant first, without a zero    *)
(* limb at the top; zero is <<>>.                                          *)
(***************************************************************************)
LimbBits == 15
LimbBase == 32768

AbsInt(i) == IF i < 0 THEN -i ELSE i

RECURSIVE Gcd(_, _)
Gcd(a, b) == IF b = 0 THEN a ELSE Gcd(b, a % b)

RECURSIVE Pow2(_)
Pow2(k) == IF k = 0 THEN 1 ELSE 2 * Pow2(k - 1)

RECURSIVE BitLenInt(_)
BitLenInt(i) == IF i = 0 THEN 0 ELSE 1 + BitLenInt(i \div 2)

SetMax(S) == CHOOSE i \in S : \A j \in S : j <= i

Limb(a, i) == IF i <= Len(a) THEN a[i] ELSE 0

BigTrim(a) == SubSeq(a, 1, SetMax({0} \cup {i \in 1..Len(a) : a[i] # 0}))

\* i >= 0 in limbs below base
RECURSIVE OfIntIn(_, _)
OfIntIn(base, i) == IF i = 0 THEN <<>> ELSE <<i % base>> \o OfIntIn(base, i \div base)

RECURSIVE BigToInt(_)
BigToInt(a) == IF a = <<>> THEN 0 ELSE a[1] + LimbBase * BigToInt(Tail(a))

\* -1, 0 or 1 as a < b, a = b or a > b
BigCmp(a, b) ==
    LET differ == {i \in 1..(Len(a) + Len(b)) : Limb(a, i) # Limb(b, i)}
    IN  IF differ = {} THEN 0
        ELSE IF Limb(a, SetMax(differ)) < Limb(b, SetMax(differ)) THEN -1 ELSE 1

\* a + b in limbs below base: limb i receives a carry when a limb below
\* overflows and every limb between the two is full
AddIn(base, a, b) ==
    LET Carried(sum) ==
            BigTrim([i \in 1..(Len(sum) + 1) |->
                        ((IF i <= Len(sum) THEN sum[i] ELSE 0)
                            + (IF \E j \in 1..(i - 1) :
                                      /\ sum[j] >= base
                                      /\ \A k \in (j + 1)..(i - 1) : sum[k] = base - 1
                               THEN 1 ELSE 0)) % base])
    IN  Carried([i \in 1..(IF Len(a) > Len(b) THEN Len(a) ELSE Len(b)) |->
                    Limb(a, i) + Limb(b, i)])

BigAdd(a, b) == AddIn(LimbBase, a, b)

\* a - b for a >= b: limb i lends when a limb below is short and every limb
\* between the two is zero
BigSub(a, b) ==
    LET Borrowed(diff) ==
            BigTrim([i \in 1..Len(a) |->
                        (diff[i] - (IF \E j \in 1..(i - 1) :
                                          /\ diff[j] < 0
                                          /\ \A k \in (j + 1)..(i - 1) : diff[k] = 0
                                    THEN 1 ELSE 0) + LimbBase) % LimbBase])
    IN  Borrowed([i \in 1..Len(a) |-> a[i] - Limb(b, i)])

\* a * k for 0 <= k <= LimbBase
MulSmallIn(base, a, k) ==
    AddIn(base, [i \in 1..Len(a) |-> (a[i] * k) % base],
                <<0>> \o [i \in 1..Len(a) |-> (a[i] * k) \div base])

BigMulSmall(a, k) == MulSmallIn(LimbBase, a, k)

\* a times the limbs lo..hi of b, each at its place
RECURSIVE MulLimbsIn(_, _, _, _, _)
MulLimbsIn(base, a, b, lo, hi) ==
    IF lo > hi THEN <<>>
    ELSE IF lo = hi THEN BigTrim([i \in 1..(lo - 1) |-> 0] \o MulSmallIn(base, a, b[lo]))
    ELSE AddIn(base, MulLimbsIn(base, a, b, lo, (lo + hi) \div 2),
                     MulLimbsIn(base, a, b, (lo + hi) \div 2 + 1, hi))

MulIn(base, a, b) ==
    LET Mul(long, short) == MulLimbsIn(base, long, short, 1, Len(short))
    IN  Mul(IF Len(a) < Len(b) THEN b ELSE a, IF Len(a) < Len(b) THEN a ELSE b)

BigMul(a, b) == MulIn(LimbBase, a, b)

\* x^n
RECURSIVE PowIn(_, _, _)
PowIn(base, x, n) ==
    IF n = 0 THEN <<1>>
    ELSE LET Odd(sq) == IF n % 2 = 0 THEN sq ELSE MulIn(base, sq, x)
             Square(h) == Odd(MulIn(base, h, h))
         IN  Square(PowIn(base, x, n \div 2))


\* a * 2^n and a \div 2^n
BigShl(a, n) ==
    IF a = <<>> THEN <<>>
    ELSE [i \in 1..(n \div LimbBits) |-> 0] \o BigMulSmall(a, Pow2(n % LimbBits))

BigShr(a, n) ==
    LET whole == n \div LimbBits
        bits == n % LimbBits
    IN  IF whole >= Len(a) THEN <<>>
        ELSE BigTrim([i \in 1..(Len(a) - whole) |->
                        a[i + whole] \div Pow2(bits)
                            + (Limb(a, i + whole + 1) % Pow2(bits)) * Pow2(LimbBits - bits)])

BigBitLen(a) ==
    IF a = <<>> THEN 0 ELSE LimbBits * (Len(a) - 1) + BitLenInt(a[Len(a)])

\* the number of zero bits below the lowest one bit of a > 0
RECURSIVE TrailingZerosInt(_)
TrailingZerosInt(i) == IF i % 2 = 1 THEN 0 ELSE 1 + TrailingZerosInt(i \div 2)

\* the largest q in lo..hi with d * q <= r
RECURSIVE QuotientLimb(_, _, _, _)
QuotientLimb(r, d, lo, hi) ==
    IF lo = hi THEN lo
    ELSE IF BigCmp(BigMulSmall(d, (lo + hi + 1) \div 2), r) <= 0
    THEN QuotientLimb(r, d, (lo + hi + 1) \div 2, hi)
    ELSE QuotientLimb(r, d, lo, (lo + hi + 1) \div 2 - 1)

\* <<n \div d, n % d>> for d > 0, one limb of the quotient at a time
RECURSIVE BigDivModFrom(_, _, _, _)
BigDivModFrom(n, d, i, rem) ==
    IF i = 0 THEN <<<<>>, rem>>
    ELSE LET Push(rest, q) == <<rest[1] \o <<q>>, rest[2]>>
             Lower(cur, q) ==
                 Push(BigDivModFrom(n, d, i - 1, BigSub(cur, BigMulSmall(d, q))), q)
             Digit(cur) == Lower(cur, QuotientLimb(cur, d, 0, LimbBase - 1))
         IN  Digit(BigTrim(<<n[i]>> \o rem))

\* the limbs lo..hi of a as one number in limbs below 10000
DecimalBase == 10000

RECURSIVE DecimalLimbs(_, _, _)
DecimalLimbs(a, lo, hi) ==
    IF lo = hi THEN OfIntIn(DecimalBase, a[lo])
    ELSE AddIn(DecimalBase,
               DecimalLimbs(a, lo, (lo + hi) \div 2),
               MulIn(DecimalBase, DecimalLimbs(a, (lo + hi) \div 2 + 1, hi),
                     PowIn(DecimalBase, OfIntIn(DecimalBase, LimbBase),
                           (lo + hi) \div 2 - lo + 1)))

\* the digits of the limbs lo..hi of dec, the top limb of dec without zeros
\* in front
RECURSIVE DecimalString(_, _, _)
DecimalString(dec, lo, hi) ==
    IF lo = hi
    THEN (IF lo = Len(dec) \/ dec[lo] >= 1000 THEN ""
          ELSE IF dec[lo] >= 100 THEN "0" ELSE IF dec[lo] >= 10 THEN "00" ELSE "000")
            \o ToString(dec[lo])
    ELSE DecimalString(dec, (lo + hi) \div 2 + 1, hi)
            \o DecimalString(dec, lo, (lo + hi) \div 2)

(***************************************************************************)
(* Python floats: the IEEE 754 binary64 values.  A finite value is held    *)
(* exactly: <<n, d>>, the fraction n / d in lowest terms with d a power of *)
(* two, when |n| and d are below 2^30, and <<"f64", sign, m, e>> for       *)
(* sign * m * 2^e with m an odd natural number in limbs otherwise.         *)
(* <<"inf", sign, 0>> are the infinities and <<"nan">> is NaN.  The two    *)
(* zeros are one value: no operation of the interpreter tells -0.0 from    *)
(* 0.0 (they compare equal, division by either raises, and a zero prints   *)
(* through int(val)).                                                      *)
(***************************************************************************)
Rat(n, d) ==
    LET g == Gcd(AbsInt(n), AbsInt(d))
        s == IF d < 0 THEN -1 ELSE 1
    IN  <<(s * n) \div g, (s * d) \div g>>

Float(i) == <<i, 1>>

NaN == <<"nan">>
Inf(sign) == <<"inf", sign, 0>>

IsNaN(v) == Len(v) = 1
IsInf(v) == Len(v) = 3
IsZero(v) == Len(v) = 2 /\ v[1] = 0

MantissaBits == 53     \* bits of a binary64 significand
MinExponent == -1074   \* the exponent of the smallest subnormal, 2^-1074
MaxExponent == 1024    \* every finite binary64 is below 2^1024
SmallBits == 30

\* sys.float_info.max, 1.7976931348623157e308
MaxFloat ==
    <<"f64", 1, BigSub(BigShl(<<1>>, MantissaBits), <<1>>), MaxExponent - MantissaBits>>

Sign(v) == IF Len(v) = 2 THEN (IF v[1] < 0 THEN -1 ELSE 1) ELSE v[2]
Mantissa(v) == IF Len(v) = 2 THEN OfIntIn(LimbBase, AbsInt(v[1])) ELSE v[3]
Exponent(v) == IF Len(v) = 2 THEN 1 - BitLenInt(v[2]) ELSE v[4]

\* The value sign * m * 2^e in the form described above.
Finite(sign, m, e) ==
    IF m = <<>> THEN Float(0)
    ELSE LET Form(odd, exp, len) ==
                 IF exp <= 0 /\ exp > -SmallBits /\ len <= SmallBits
                 THEN <<sign * BigToInt(odd), Pow2(-exp)>>
                 ELSE IF exp > 0 /\ len + exp <= SmallBits
                 THEN <<sign * BigToInt(odd) * Pow2(exp), 1>>
                 ELSE <<"f64", sign, odd, exp>>
             Odd(odd, exp) == Form(odd, exp, BigBitLen(odd))
             Strip(tz) == Odd(BigShr(m, tz), e + tz)
             Lowest(low) == Strip(LimbBits * (low - 1) + TrailingZerosInt(m[low]))
         IN  Lowest(CHOOSE i \in 1..Len(m) : m[i] # 0 /\ \A j \in 1..(i - 1) : m[j] = 0)

\* The binary64 nearest to sign * (m + f) * 2^e, where 0 < f < 1 when sticky
\* and f = 0 otherwise: round to nearest, ties to the even significand,
\* beyond the largest finite value to infinity.
RoundToFloat(sign, m, e, sticky) ==
    LET Result(rounded, exp) ==
            IF BigBitLen(rounded) + exp > MaxExponent THEN Inf(sign)
            ELSE Finite(sign, rounded, exp)
        \* kept is m without its low bits, half the sign of those bits less half a unit
        Up(kept, half) ==
            IF half > 0 \/ (half = 0 /\ (sticky \/ (kept # <<>> /\ kept[1] % 2 = 1)))
            THEN BigAdd(kept, <<1>>) ELSE kept
        Cut(kept, shift) ==
            Up(kept, BigCmp(BigSub(m, BigShl(kept, shift)), BigShl(<<1>>, shift - 1)))
        Shift(shift) ==
            Result(IF shift <= 0 THEN m ELSE Cut(BigShr(m, shift), shift),
                   IF shift <= 0 THEN e ELSE e + shift)
        Target(target) == Shift(IF target > MinExponent THEN target - e ELSE MinExponent - e)
    IN  Target(e + BigBitLen(m) - MantissaBits)

FNeg(a) ==
    IF IsNaN(a) THEN NaN
    ELSE IF IsInf(a) THEN Inf(-a[2])
    ELSE IF Len(a) = 2 THEN <<-a[1], a[2]>>
    ELSE <<"f64", -a[2], a[3], a[4]>>

\* Operands below 2^15 with at most 14 binary places: their sum, their product
\* and a quotient that comes out even fit in 53 bits, so the operation rounds
\* nothing away.
Small(a) == Len(a) = 2 /\ AbsInt(a[1]) < LimbBase /\ a[2] < LimbBase

FAdd(a, b) ==
    IF Small(a) /\ Small(b)
    THEN (IF a[2] >= b[2] THEN Rat(a[1] + b[1] * (a[2] \div b[2]), a[2])
          ELSE Rat(a[1] * (b[2] \div a[2]) + b[1], b[2]))
    ELSE IF IsNaN(a) \/ IsNaN(b) THEN NaN
    ELSE IF IsInf(a) THEN (IF IsInf(b) /\ b[2] # a[2] THEN NaN ELSE a)
    ELSE IF IsInf(b) THEN b
    ELSE LET Round(sm, e) == RoundToFloat(sm[1], sm[2], e, FALSE)
             Sum(ma, mb, e) ==
                 Round(IF Sign(a) = Sign(b) THEN <<Sign(a), BigAdd(ma, mb)>>
                       ELSE IF BigCmp(ma, mb) >= 0 THEN <<Sign(a), BigSub(ma, mb)>>
                       ELSE <<Sign(b), BigSub(mb, ma)>>, e)
             Align(e) == Sum(BigShl(Mantissa(a), Exponent(a) - e),
                             BigShl(Mantissa(b), Exponent(b) - e), e)
         IN  Align(IF Exponent(a) < Exponent(b) THEN Exponent(a) ELSE Exponent(b))

FSub(a, b) == FAdd(a, FNeg(b))

FMul(a, b) ==
    IF Small(a) /\ Small(b) THEN Rat(a[1] * b[1], a[2] * b[2])
    ELSE IF IsNaN(a) \/ IsNaN(b) THEN NaN
    ELSE IF IsInf(a) \/ IsInf(b)
    THEN (IF IsZero(a) \/ IsZero(b) THEN NaN ELSE Inf(Sign(a) * Sign(b)))
    ELSE RoundToFloat(Sign(a) * Sign(b), BigMul(Mantissa(a), Mantissa(b)),
                      Exponent(a) + Exponent(b), FALSE)

\* The exception a Python float division raises when the divisor is 0.0.
ZeroDivisionError == <<"raise", "ZeroDivisionError">>

IsRaise(v) == v[1] = "raise"

\* a / b on Python floats raises ZeroDivisionError when b == 0.0 ...
DivRaises(a, b) == IsZero(b)

\* ... and is the quotient, rounded, otherwise.
FDiv(a, b) ==
    IF Small(a) /\ Small(b) /\ b[1] # 0 /\ (a[1] * b[2]) % AbsInt(b[1]) = 0
    THEN Rat(a[1] * b[2], b[1] * a[2])
    ELSE IF IsNaN(a) \/ IsNaN(b) THEN NaN
    ELSE IF IsInf(a) THEN (IF IsInf(b) THEN NaN ELSE Inf(Sign(a) * Sign(b)))
    ELSE IF IsInf(b) \/ IsZero(a) THEN Float(0)
    ELSE LET Round(qr, k) ==
                 RoundToFloat(Sign(a) * Sign(b), BigTrim(qr[1]),
                              Exponent(a) - Exponent(b) - k, qr[2] # <<>>)
             Divide(num, k) ==
                 Round(IF Mantissa(b) = <<1>> THEN <<num, <<>>>>
                       ELSE BigDivModFrom(num, Mantissa(b), Len(num), <<>>), k)
             Scale(k) == Divide(BigShl(Mantissa(a), k), k)
             Need(need) == Scale(IF need > 0 THEN need ELSE 0)
         IN  Need(MantissaBits + 3 + BigBitLen(Mantissa(b)) - BigBitLen(Mantissa(a)))

(***************************************************************************)
(* fresh_variable: counter = 1; while True: candidate = f"Var{counter}"... *)
(***************************************************************************)
Candidate(counter) == "Var" \o ToString(counter)

RECURSIVE fresh_loop(_, _)
fresh_loop(counter, used_vars) ==
    IF Candidate(counter) \notin used_vars
    THEN Candidate(counter)
    ELSE fresh_loop(counter + 1, used_vars)

\* A generator whose counter is shared by the whole process and never reset:
\* each completed call has moved it on.
fresh_variable_global(used_vars) == fresh_loop(1 + Len(history), used_vars)

fresh_variable(used_vars) == fresh_loop(1, used_vars)

(***************************************************************************)
(* free_variables                                                          *)
(***************************************************************************)
RECURSIVE free_variables(_)
free_variables(e) ==
    CASE e[1] = "var" -> {e[2]}
      [] e[1] = "abs" -> free_variables(e[3]) \ {e[2]}
      [] e[1] = "app" -> free_variables(e[2]) \cup free_variables(e[3])
      [] e[1] = "neg" -> free_variables(e[2])
      [] e[1] \in BinOpKinds -> free_variables(e[2]) \cup free_variables(e[3])
      [] OTHER -> {}

RECURSIVE free_variables_A2(_)
free_variables_A2(e) ==
    CASE e[1] = "var" -> {e[2]}
      [] e[1] = "abs" -> free_variables_A2(e[3]) \ {e[2]}
      [] e[1] = "app" -> free_variables_A2(e[2]) \cup free_variables_A2(e[3])
      [] OTHER -> {}

(***************************************************************************)
(* substitute                                                              *)
(***************************************************************************)
\* used_vars without the body's free variables.
used_vars_no_body(body, var_name, replacement) ==
    free_variables(replacement) \cup {var_name}

\* used_vars = free_variables(replacement) | free_variables(body) | {var_name}
used_vars(body, var_name, replacement) ==
    free_variables(replacement) \cup free_variables(body) \cup {var_name}

\* Substitution that never renames a binder.
RECURSIVE substitute_naive(_, _, _)
substitute_naive(e, var_name, replacement) ==
    CASE e[1] = "var" -> IF e[2] = var_name THEN replacement ELSE e
      [] e[1] = "abs" ->
            IF e[2] = var_name THEN e
            ELSE Abs(e[2], substitute_naive(e[3], var_name, replacement))
      [] e[1] = "app" ->
            App(substitute_naive(e[2], var_name, replacement),
                substitute_naive(e[3], var_name, replacement))
      [] e[1] \in BinOpKinds ->
            BinOp(e[1], substitute_naive(e[2], var_name, replacement),
                        substitute_naive(e[3], var_name, replacement))
      [] e[1] = "neg" -> Neg(substitute_naive(e[2], var_name, replacement))
      [] OTHER -> e

RECURSIVE substitute(_, _, _)
substitute(e, var_name, replacement) ==
    CASE e[1] = "var" -> IF e[2] = var_name THEN replacement ELSE e
      [] e[1] = "abs" ->
            LET bound_var == e[2]
                body == e[3]
            IN  IF bound_var = var_name THEN e
                ELSE IF bound_var \in free_variables(replacement)
                THEN LET new_var == fresh_variable(used_vars(body, var_name, replacement))
                         renamed == substitute(body, bound_var, Var(new_var))
                     IN  Abs(new_var, substitute(renamed, var_name, replacement))
                ELSE Abs(bound_var, substitute(body, var_name, replacement))
      [] e[1] = "app" ->
            App(substitute(e[2], var_name, replacement),
                substitute(e[3], var_name, replacement))
      [] e[1] \in BinOpKinds ->
            BinOp(e[1], substitute(e[2], var_name, replacement),
                        substitute(e[3], var_name, replacement))
      [] e[1] = "neg" -> Neg(substitute(e[2], var_name, replacement))
      [] OTHER -> e

RECURSIVE substitute_A2(_, _, _)
substitute_A2(e, var_name, replacement) ==
    CASE e[1] = "var" -> IF e[2] = var_name THEN replacement ELSE e
      [] e[1] = "abs" ->
            LET bound_var == e[2]
                body == e[3]
            IN  IF bound_var = var_name THEN e
                ELSE IF bound_var \in free_variables_A2(replacement)
                THEN LET used == free_variables_A2(replacement)
                                    \cup free_variables_A2(body) \cup {var_name}
                         new_var == fresh_variable(used)
                         renamed == substitute_A2(body, bound_var, Var(new_var))
                     IN  Abs(new_var, substitute_A2(renamed, var_name, replacement))
                ELSE Abs(bound_var, substitute_A2(body, var_name, replacement))
      [] e[1] = "app" ->
            App(substitute_A2(e[2], var_name, replacement),
                substitute_A2(e[3], var_name, replacement))
      [] OTHER -> e

(***************************************************************************)
(* is_redex, reduce_redex: the pair (new_expr, reduced) is <<term, BOOLEAN>>*)
(***************************************************************************)
is_numeric(e) == e[1] = "num"

get_numeric_value(e) == e[2]

is_redex(e) == e[1] = "app" /\ e[2][1] = "abs"

\* The redex rule of a call-by-value reducer, which steps inside the argument
\* before it substitutes it.
RECURSIVE reduce_redex_cbv(_)
reduce_redex_cbv(e) ==
    IF is_redex(e)
    THEN LET a == reduce_redex_cbv(e[3])
         IN  IF a[2] THEN <<App(e[2], a[1]), TRUE>>
             ELSE <<substitute(e[2][3], e[2][2], e[3]), TRUE>>
    ELSE IF e[1] = "app"
    THEN LET f == reduce_redex_cbv(e[2])
         IN  IF f[2] THEN <<App(f[1], e[3]), TRUE>> ELSE <<e, FALSE>>
    ELSE IF e[1] \in BinOpKinds
    THEN LET l == reduce_redex_cbv(e[2])
         IN  IF l[2] THEN <<BinOp(e[1], l[1], e[3]), TRUE>>
             ELSE LET r == reduce_redex_cbv(e[3])
                  IN  IF r[2] THEN <<BinOp(e[1], e[2], r[1]), TRUE>> ELSE <<e, FALSE>>
    ELSE IF e[1] = "neg"
    THEN LET o == reduce_redex_cbv(e[2])
         IN  IF o[2] THEN <<Neg(o[1]), TRUE>> ELSE <<e, FALSE>>
    ELSE <<e, FALSE>>

\* A reducer that also searches the body of an abstraction.
RECURSIVE reduce_redex_under_lambda(_)
reduce_redex_under_lambda(e) ==
    IF is_redex(e)
    THEN <<substitute(e[2][3], e[2][2], e[3]), TRUE>>
    ELSE IF e[1] = "app"
    THEN LET f == reduce_redex_under_lambda(e[2])
         IN  IF f[2] THEN <<App(f[1], e[3]), TRUE>> ELSE <<e, FALSE>>
    ELSE IF e[1] = "abs"
    THEN LET b == reduce_redex_under_lambda(e[3])
         IN  IF b[2] THEN <<Abs(e[2], b[1]), TRUE>> ELSE <<e, FALSE>>
    ELSE IF e[1] \in BinOpKinds
    THEN LET l == reduce_redex_under_lambda(e[2])
         IN  IF l[2] THEN <<BinOp(e[1], l[1], e[3]), TRUE>>
             ELSE LET r == reduce_redex_under_lambda(e[3])
                  IN  IF r[2] THEN <<BinOp(e[1], e[2], r[1]), TRUE>> ELSE <<e, FALSE>>
    ELSE IF e[1] = "neg"
    THEN LET o == reduce_redex_under_lambda(e[2])
         IN  IF o[2] THEN <<Neg(o[1]), TRUE>> ELSE <<e, FALSE>>
    ELSE <<e, FALSE>>

\* A reducer that searches only the left operand of a binary operation.
RECURSIVE reduce_redex_left_only(_)
reduce_redex_left_only(e) ==
    IF is_redex(e)
    THEN <<substitute(e[2][3], e[2][2], e[3]), TRUE>>
    ELSE IF e[1] = "app" \/ e[1] \in BinOpKinds
    THEN LET l == reduce_redex_left_only(e[2])
         IN  IF l[2] THEN <<BinOp(e[1], l[1], e[3]), TRUE>> ELSE <<e, FALSE>>
    ELSE IF e[1] = "neg"
    THEN LET o == reduce_redex_left_only(e[2])
         IN  IF o[2] THEN <<Neg(o[1]), TRUE>> ELSE <<e, FALSE>>
    ELSE <<e, FALSE>>

\* A reducer that contracts a redex in each operand of a binary operation in
\* the same call.
RECURSIVE reduce_redex_both_operands(_)
reduce_redex_both_operands(e) ==
    IF is_redex(e)
    THEN <<substitute(e[2][3], e[2][2], e[3]), TRUE>>
    ELSE IF e[1] = "app"
    THEN LET f == reduce_redex_both_operands(e[2])
         IN  IF f[2] THEN <<App(f[1], e[3]), TRUE>> ELSE <<e, FALSE>>
    ELSE IF e[1] \in BinOpKinds
    THEN LET l == reduce_redex_both_operands(e[2])
             r == reduce_redex_both_operands(e[3])
         IN  <<BinOp(e[1], l[1], r[1]), l[2] \/ r[2]>>
    ELSE IF e[1] = "neg"
    THEN LET o == reduce_redex_both_operands(e[2])
         IN  IF o[2] THEN <<Neg(o[1]), TRUE>> ELSE <<e, FALSE>>
    ELSE <<e, FALSE>>

\* A reducer that searches the right operand of a binary operation first.
RECURSIVE reduce_redex_right_first(_)
reduce_redex_right_first(e) ==
    IF is_redex(e)
    THEN <<substitute(e[2][3], e[2][2], e[3]), TRUE>>
    ELSE IF e[1] = "app"
    THEN LET f == reduce_redex_right_first(e[2])
         IN  IF f[2] THEN <<App(f[1], e[3]), TRUE>> ELSE <<e, FALSE>>
    ELSE IF e[1] \in BinOpKinds
    THEN LET r == reduce_redex_right_first(e[3])
         IN  IF r[2] THEN <<BinOp(e[1], e[2], r[1]), TRUE>>
             ELSE LET l == reduce_redex_right_first(e[2])
                  IN  IF l[2] THEN <<BinOp(e[1], l[1], e[3]), TRUE>> ELSE <<e, FALSE>>
    ELSE IF e[1] = "neg"
    THEN LET o == reduce_redex_right_first(e[2])
         IN  IF o[2] THEN <<Neg(o[1]), TRUE>> ELSE <<e, FALSE>>
    ELSE <<e, FALSE>>

\* Assignment3: lazy, never under a binder, never inside an argument.
RECURSIVE reduce_redex(_)
reduce_redex(e) ==
    IF is_redex(e)
    THEN LET func == e[2]
             arg == e[3]
             bound_var == func[2]
             body == func[3]
         IN  <<substitute(body, bound_var, arg), TRUE>>
    ELSE IF e[1] = "app"
    THEN LET f == reduce_redex(e[2])
         IN  IF f[2] THEN <<App(f[1], e[3]), TRUE>> ELSE <<e, FALSE>>
    ELSE IF e[1] \in BinOpKinds
    THEN LET l == reduce_redex(e[2])
         IN  IF l[2] THEN <<BinOp(e[1], l[1], e[3]), TRUE>>
             ELSE LET r == reduce_redex(e[3])
                  IN  IF r[2] THEN <<BinOp(e[1], e[2], r[1]), TRUE>> ELSE <<e, FALSE>>
    ELSE IF e[1] = "neg"
    THEN LET o == reduce_redex(e[2])
         IN  IF o[2] THEN <<Neg(o[1]), TRUE>> ELSE <<e, FALSE>>
    ELSE <<e, FALSE>>

\* A normal-order reducer that forgets the body of an abstraction.
RECURSIVE reduce_redex_A2_no_body(_)
reduce_redex_A2_no_body(e) ==
    IF is_redex(e)
    THEN <<substitute_A2(e[2][3], e[2][2], e[3]), TRUE>>
    ELSE IF e[1] = "app"
    THEN LET f == reduce_redex_A2_no_body(e[2])
         IN  IF f[2] THEN <<App(f[1], e[3]), TRUE>>
             ELSE LET a == reduce_redex_A2_no_body(e[3])
                  IN  IF a[2] THEN <<App(e[2], a[1]), TRUE>> ELSE <<e, FALSE>>
    ELSE <<e, FALSE>>

\* A reducer that searches the argument of an application before its function.
RECURSIVE reduce_redex_A2_arg_first(_)
reduce_redex_A2_arg_first(e) ==
    IF is_redex(e)
    THEN <<substitute_A2(e[2][3], e[2][2], e[3]), TRUE>>
    ELSE IF e[1] = "app"
    THEN LET a == reduce_redex_A2_arg_first(e[3])
         IN  IF a[2] THEN <<App(e[2], a[1]), TRUE>>
             ELSE LET f == reduce_redex_A2_arg_first(e[2])
                  IN  IF f[2] THEN <<App(f[1], e[3]), TRUE>> ELSE <<e, FALSE>>
    ELSE IF e[1] = "abs"
    THEN LET b == reduce_redex_A2_arg_first(e[3])
         IN  IF b[2] THEN <<Abs(e[2], b[1]), TRUE>> ELSE <<e, FALSE>>
    ELSE <<e, FALSE>>

\* Assignment2: leftmost-outermost, also inside arguments and under binders.
RECURSIVE reduce_redex_A2(_)
reduce_redex_A2(e) ==
    IF is_redex(e)
    THEN LET func == e[2]
             arg == e[3]
             bound_var == func[2]
             body == func[3]
         IN  <<substitute_A2(body, bound_var, arg), TRUE>>
    ELSE IF e[1] = "app"
    THEN LET f == reduce_redex_A2(e[2])
         IN  IF f[2] THEN <<App(f[1], e[3]), TRUE>>
             ELSE LET a == reduce_redex_A2(e[3])
                  IN  IF a[2] THEN <<App(e[2], a[1]), TRUE>> ELSE <<e, FALSE>>
    ELSE IF e[1] = "abs"
    THEN LET b == reduce_redex_A2(e[3])
         IN  IF b[2] THEN <<Abs(e[2], b[1]), TRUE>> ELSE <<e, FALSE>>
    ELSE <<e, FALSE>>

(***************************************************************************)
(* evaluate_arithmetic: the fold pass.  An exception raised by an operand  *)
(* or by the division itself leaves the call: the result is then           *)
(* ZeroDivisionError instead of a term.                                    *)
(***************************************************************************)
Arith(kind, a, b) ==
    CASE kind = "plus" -> FAdd(a, b)
      [] kind = "minus" -> FSub(a, b)
      [] kind = "times" -> FMul(a, b)
      [] kind = "div" -> FDiv(a, b)

\* A fold pass that looks at the operands as they stand, without folding them
\* first.
evaluate_arithmetic_shallow(e) ==
    IF e[1] \in BinOpKinds
    THEN IF is_numeric(e[2]) /\ is_numeric(e[3])
         THEN IF e[1] = "div" /\ DivRaises(get_numeric_value(e[2]), get_numeric_value(e[3]))
              THEN ZeroDivisionError
              ELSE Num(Arith(e[1], get_numeric_value(e[2]), get_numeric_value(e[3])))
         ELSE e
    ELSE IF e[1] = "neg"
    THEN IF is_numeric(e[2]) THEN Num(FNeg(get_numeric_value(e[2]))) ELSE e
    ELSE e

RECURSIVE evaluate_arithmetic(_)
evaluate_arithmetic(e) ==
    IF e[1] \in BinOpKinds
    THEN LET left == evaluate_arithmetic(e[2])
         IN  IF IsRaise(left) THEN left
             ELSE LET right == evaluate_arithmetic(e[3])
                  IN  IF IsRaise(right) THEN right
                      ELSE IF is_numeric(left) /\ is_numeric(right)
                      THEN IF e[1] = "div" /\ DivRaises(get_numeric_value(left),
                                                        get_numeric_value(right))
                           THEN ZeroDivisionError
                           ELSE Num(Arith(e[1], get_numeric_value(left),
                                                get_numeric_value(right)))
                      ELSE BinOp(e[1], left, right)
    ELSE IF e[1] = "neg"
    THEN LET operand == evaluate_arithmetic(e[2])
         IN  IF IsRaise(operand) THEN operand
             ELSE IF is_numeric(operand)
             THEN Num(FNeg(get_numeric_value(operand)))
             ELSE Neg(operand)
    ELSE e

(***************************************************************************)
(* evaluate: one iteration of `while True`.  did names the branch taken:   *)
(* "beta" (expr = new_expr after a reduction), "fold" (the fold pass       *)
(* changed the term), "return", or "raise" (the fold pass raised).         *)
(***************************************************************************)
\* A body that returns after its first reduction instead of looping.
evaluate_once(e) ==
    LET rr == reduce_redex(e)
    IN  IF rr[2] THEN [pc |-> "done", expr |-> rr[1], did |-> "beta"]
        ELSE [pc |-> "done", expr |-> e, did |-> "return"]

\* A loop that returns when no redex is left, without running the fold pass.
evaluate_no_fold(e) ==
    LET rr == reduce_redex(e)
    IN  IF rr[2] THEN [pc |-> "loop", expr |-> rr[1], did |-> "beta"]
        ELSE [pc |-> "done", expr |-> e, did |-> "return"]

evaluate(e) ==
    LET AfterFold(new_expr) ==
            IF IsRaise(new_expr) THEN [pc |-> "raised", expr |-> e, did |-> "raise"]
            ELSE IF new_expr = e THEN [pc |-> "done", expr |-> e, did |-> "return"]
            ELSE [pc |-> "loop", expr |-> new_expr, did |-> "fold"]
        AfterReduce(rr) ==
            IF rr[2] THEN [pc |-> "loop", expr |-> rr[1], did |-> "beta"]
            ELSE AfterFold(evaluate_arithmetic(e))
    IN  AfterReduce(reduce_redex(e))

\* A loop that returns when a reduction gives the term it started from.
evaluate_A2_cycle_check(e) ==
    LET rr == reduce_redex_A2(e)
    IN  IF rr[2] /\ rr[1] # e THEN [pc |-> "loop", expr |-> rr[1], did |-> "beta"]
        ELSE [pc |-> "done", expr |-> e, did |-> "return"]

evaluate_A2(e) ==
    LET rr == reduce_redex_A2(e)
    IN  IF rr[2] THEN [pc |-> "loop", expr |-> rr[1], did |-> "beta"]
        ELSE [pc |-> "done", expr |-> e, did |-> "return"]

(***************************************************************************)
(* str(val) of a finite float that is not an integer: the shortest decimal *)
(* digits that read back as val, the nearest to val among the shortest,    *)
(* in exponent notation below 1e-4.                                        *)
(***************************************************************************)
\* R / S is the part of val not yet written, MPlus / S and MMinus / S the
\* distances to the midpoints between val and its neighbours; a midpoint
\* reads back as val when the significand of val is even.
TooHigh(R, MPlus, S, even) == BigCmp(BigAdd(R, MPlus), S) >= (IF even THEN 0 ELSE 1)

\* <<digit, rest>> with R = digit * S + rest and rest < S
RECURSIVE DigitOf(_, _, _)
DigitOf(R, S, d) == IF BigCmp(R, S) < 0 THEN <<d, R>> ELSE DigitOf(BigSub(R, S), S, d + 1)

RECURSIVE GenerateDigits(_, _, _, _, _)
GenerateDigits(R, S, MPlus, MMinus, even) ==
    LET \* low, high: the digits so far with d, or with d + 1, read back as val
        Last(d, rest, mp, mm, low, high) ==
            IF ~low /\ ~high THEN <<d>> \o GenerateDigits(rest, S, mp, mm, even)
            ELSE IF low /\ ~high THEN <<d>>
            ELSE IF high /\ ~low THEN <<d + 1>>
            \* both do: the nearer, and of two as near the even digit
            ELSE IF BigCmp(BigMulSmall(rest, 2), S) < (IF d % 2 = 0 THEN 1 ELSE 0) THEN <<d>>
            ELSE <<d + 1>>
        Bounds(d, rest, mp, mm) ==
            Last(d, rest, mp, mm, BigCmp(rest, mm) <= (IF even THEN 0 ELSE -1),
                 TooHigh(rest, mp, S, even))
        Digit(dr) == Bounds(dr[1], dr[2], BigMulSmall(MPlus, 10), BigMulSmall(MMinus, 10))
    IN  Digit(DigitOf(BigMulSmall(R, 10), S, 0))

\* The decimal exponent k with 10^(k-1) <= val < 10^k (the upper midpoint
\* counted in), and the digits from there.
RECURSIVE ScaleDown(_, _, _, _, _, _)
ScaleDown(R, S, MPlus, MMinus, even, k) ==
    LET Try(R10, MPlus10) ==
            IF TooHigh(R10, MPlus10, S, even)
            THEN <<GenerateDigits(R, S, MPlus, MMinus, even), k>>
            ELSE ScaleDown(R10, S, MPlus10, BigMulSmall(MMinus, 10), even, k - 1)
    IN  Try(BigMulSmall(R, 10), BigMulSmall(MPlus, 10))

RECURSIVE ScaleUp(_, _, _, _, _, _)
ScaleUp(R, S, MPlus, MMinus, even, k) ==
    IF TooHigh(R, MPlus, S, even)
    THEN ScaleUp(R, BigMulSmall(S, 10), MPlus, MMinus, even, k + 1)
    ELSE ScaleDown(R, S, MPlus, MMinus, even, k)

\* <<digits, k>>: val = 0.d1 d2 ... dn * 10^k
DigitsOf(m, e) ==
    LET \* val = f * 2^p with f of 53 bits, or p the least exponent
        Scaled(f, p, even, up, down, two, guess, grow, shrink) ==
            ScaleUp(BigMul(BigShl(f, up + two), grow),
                    BigMul(BigShl(<<1>>, down + two), shrink),
                    BigMul(BigShl(<<1>>, up + two - 1), grow),
                    BigMul(BigShl(<<1>>, up), grow), even, guess)
        Power(f, p, even, two, guess, pow) ==
            Scaled(f, p, even, IF p > 0 THEN p ELSE 0, IF p < 0 THEN -p ELSE 0, two, guess,
                   IF guess < 0 THEN pow ELSE <<1>>, IF guess > 0 THEN pow ELSE <<1>>)
        Guess(f, p, even, two, guess) ==
            Power(f, p, even, two, guess, PowIn(LimbBase, <<10>>, AbsInt(guess)))
        \* floor((bits - 1) * log10(2)) is the decimal exponent to within one;
        \* the neighbour below a power of two is half as far
        Start(f, p, even) ==
            Guess(f, p, even, IF m = <<1>> /\ p > MinExponent THEN 2 ELSE 1,
                  ((BigBitLen(f) + p - 1) * 30103) \div 100000)
        Normal(sh) == Start(BigShl(m, sh), e - sh, sh > 0)
        Room(room) == Normal(IF room < e - MinExponent THEN room ELSE e - MinExponent)
    IN  Room(MantissaBits - BigBitLen(m))

RECURSIVE DigitsOfInt(_)
DigitsOfInt(i) == IF i < 10 THEN <<i>> ELSE Append(DigitsOfInt(i \div 10), i % 10)

RECURSIVE Pow5(_)
Pow5(k) == IF k = 0 THEN 1 ELSE 5 * Pow5(k - 1)

\* n / 2^k is the decimal n * 5^k / 10^k.  A decimal of at most 15 digits is
\* the shortest that reads back as its float, so for n below 2^10 and k up to
\* 9 the digits are those of n * 5^k.
ShortestDigits(val) ==
    IF Len(val) = 2 /\ val[2] > 1 /\ val[2] <= 512 /\ AbsInt(val[1]) < 1024
    THEN LET k == BitLenInt(val[2]) - 1
             ds == DigitsOfInt(AbsInt(val[1]) * Pow5(k))
         IN  <<ds, Len(ds) - k>>
    ELSE DigitsOf(Mantissa(val), Exponent(val))

RECURSIVE DigitString(_, _, _)
DigitString(ds, from, to) ==
    IF from > to THEN "" ELSE ToString(ds[from]) \o DigitString(ds, from + 1, to)

RECURSIVE ZeroString(_)
ZeroString(n) == IF n = 0 THEN "" ELSE "0" \o ZeroString(n - 1)

\* float_repr_style 'short': repr(val) for finite val
FloatRepr(val) ==
    LET Text(ds, k, n) ==
            (IF Sign(val) < 0 THEN "-" ELSE "")
            \o (IF k <= -4 \/ k > 16
                THEN ToString(ds[1]) \o (IF n > 1 THEN "." \o DigitString(ds, 2, n) ELSE "")
                        \o "e" \o (IF k - 1 < 0 THEN "-" ELSE "+")
                        \o (IF AbsInt(k - 1) < 10 THEN "0" ELSE "") \o ToString(AbsInt(k - 1))
                ELSE IF k <= 0 THEN "0." \o ZeroString(-k) \o DigitString(ds, 1, n)
                ELSE DigitString(ds, 1, k) \o (IF n < k THEN ZeroString(k - n) ELSE "")
                        \o "." \o (IF n > k THEN DigitString(ds, k + 1, n) ELSE "0"))
        Of(dk) == Text(dk[1], dk[2], Len(dk[1]))
    IN  Of(ShortestDigits(val))

ValueError == <<"raise", "ValueError">>
OverflowError == <<"raise", "OverflowError">>

\* int(val): the exception it raises on NaN and on an infinity, <<>> when it
\* returns
IntRaises(val) ==
    IF IsNaN(val) THEN ValueError ELSE IF IsInf(val) THEN OverflowError ELSE <<>>

\* linearize's 'num' branch: str(int(val)) + ".0" or str(val)
FormatFloat(val) ==
    IF IntRaises(val) # <<>> THEN IntRaises(val)
    ELSE IF Exponent(val) >= 0                      \* val == int(val)
    THEN (IF Len(val) = 2 THEN ToString(val[1])
          ELSE LET Str(dec) == DecimalString(dec, 1, Len(dec))
                   Dec(int) == Str(DecimalLimbs(int, 1, Len(int)))
               IN  (IF Sign(val) < 0 THEN "-" ELSE "")
                       \o Dec(BigShl(Mantissa(val), Exponent(val)))) \o ".0"
    ELSE FloatRepr(val)

(***************************************************************************)
(* linearize: the string of a term, or the exception that int(val) raises  *)
(* on the first number it meets that is NaN or infinite.                   *)
(***************************************************************************)
Parenthesized(str) == "(" \o str \o ")"

NonAtomicKinds == {"plus", "minus", "times", "div", "neg", "app", "abs"}

\* The exception linearize leaves with, <<>> when it returns: the recursive
\* calls run left to right before anything is formatted, so it is that of the
\* first number in the term whose int(val) raises.
RECURSIVE linearize_raises(_)
linearize_raises(e) ==
    CASE e[1] = "var" -> <<>>
      [] e[1] = "num" -> IntRaises(e[2])
      [] e[1] = "abs" -> linearize_raises(e[3])
      [] e[1] = "neg" -> linearize_raises(e[2])
      [] OTHER -> IF linearize_raises(e[2]) # <<>> THEN linearize_raises(e[2])
                  ELSE linearize_raises(e[3])

\* A linearizer that wraps the sides of a division as it wraps those of a
\* multiplication: a nested multiplication stays bare.
RECURSIVE linearize_div_as_times(_)
linearize_div_as_times(e) ==
    IF linearize_raises(e) # <<>> THEN linearize_raises(e) ELSE
    LET Sub(x, wrapped) == IF x[1] \in wrapped
                           THEN Parenthesized(linearize_div_as_times(x))
                           ELSE linearize_div_as_times(x)
    IN  CASE e[1] = "var" -> e[2]
          [] e[1] = "abs" -> "\\" \o e[2] \o "." \o Sub(e[3], {"app"})
          [] e[1] = "num" -> FormatFloat(e[2])
          [] e[1] = "app" -> Sub(e[2], {"abs"}) \o " " \o Sub(e[3], NonAtomicKinds)
          [] e[1] = "plus" ->
                Sub(e[2], NonAtomicKinds) \o " + " \o Sub(e[3], NonAtomicKinds)
          [] e[1] = "minus" ->
                Sub(e[2], NonAtomicKinds) \o " - " \o Sub(e[3], NonAtomicKinds)
          [] e[1] = "times" ->
                Sub(e[2], NonAtomicKinds \ {"times"}) \o " * "
                    \o Sub(e[3], NonAtomicKinds \ {"times"})
          [] e[1] = "div" ->
                Sub(e[2], NonAtomicKinds \ {"times"}) \o " / "
                    \o Sub(e[3], NonAtomicKinds \ {"times"})
          [] e[1] = "neg" -> "-" \o Sub(e[2], NonAtomicKinds)

RECURSIVE linearize(_)
linearize(e) ==
    IF linearize_raises(e) # <<>> THEN linearize_raises(e) ELSE
    LET Sub(x, wrapped) == IF x[1] \in wrapped
                           THEN Parenthesized(linearize(x))
                           ELSE linearize(x)
    IN  CASE e[1] = "var" -> e[2]
          [] e[1] = "abs" -> "\\" \o e[2] \o "." \o Sub(e[3], {"app"})
          [] e[1] = "num" -> FormatFloat(e[2])
          [] e[1] = "app" ->
                Sub(e[2], {"abs"}) \o " "
                    \o Sub(e[3], {"app", "abs", "plus", "minus", "times", "div", "neg"})
          [] e[1] = "plus" ->
                Sub(e[2], {"plus", "minus", "times", "div", "neg", "app", "abs"}) \o " + "
                    \o Sub(e[3], {"plus", "minus", "times", "div", "neg", "app", "abs"})
          [] e[1] = "minus" ->
                Sub(e[2], {"plus", "minus", "times", "div", "neg", "app", "abs"}) \o " - "
                    \o Sub(e[3], {"plus", "minus", "times", "div", "neg", "app", "abs"})
          [] e[1] = "times" ->
                Sub(e[2], {"plus", "minus", "div", "neg", "app", "abs"}) \o " * "
                    \o Sub(e[3], {"plus", "minus", "div", "neg", "app", "abs"})
          [] e[1] = "div" ->
                Sub(e[2], {"plus", "minus", "times", "div", "neg", "app", "abs"}) \o " / "
                    \o Sub(e[3], {"plus", "minus", "times", "div", "neg", "app", "abs"})
          [] e[1] = "neg" ->
                "-" \o (IF e[2][1] \notin {"var", "num"}
                        THEN Parenthesized(linearize(e[2]))
                        ELSE linearize(e[2]))

(***************************************************************************)
(* Input terms: what the parser can hand to evaluate.                      *)
(***************************************************************************)
SubstNames == {"x", "y", "Var1"}
PureNames == {"x", "y"}

RECURSIVE PureOfSize(_, _)
PureOfSize(n, names) ==
    IF n = 1 THEN {Var(v) : v \in names}
    ELSE {Abs(v, b) : v \in names, b \in PureOfSize(n - 1, names)}
         \cup UNION {{App(f, a) : f \in PureOfSize(k, names),
                                  a \in PureOfSize(n - 1 - k, names)} : k \in 1..(n - 2)}

SubstTerms == UNION {PureOfSize(n, SubstNames) : n \in 1..MaxSubstSize}

PureTerms == UNION {PureOfSize(n, PureNames) : n \in 1..MaxPureSize}

\* Terms with arithmetic over a reduced alphabet: one name, the literals 0 and 2.
ArithLeaves == {Var("x"), Num(Float(0)), Num(Float(2))}

RECURSIVE ArithOfSize(_)
ArithOfSize(n) ==
    IF n = 1 THEN ArithLeaves
    ELSE {Abs("x", b) : b \in ArithOfSize(n - 1)}
         \cup {Neg(b) : b \in ArithOfSize(n - 1)}
         \cup UNION {{BinOp(k, l, r) : k \in {"app", "minus", "div"},
                                       l \in ArithOfSize(i),
                                       r \in ArithOfSize(n - 1 - i)} : i \in 1..(n - 2)}

ArithTerms == UNION {ArithOfSize(n) : n \in 1..MaxArithSize}

\* Closed calculator expressions: literals, minus, times, neg, and a lambda of
\* one or two parameters whose body is arithmetic over them, applied to as
\* many such expressions.
CalcLiterals == {Num(Float(2)), Num(Float(3))}
CalcKinds == {"minus", "times"}

RECURSIVE BodyOfSize(_, _)
BodyOfSize(n, params) ==
    IF n = 1 THEN {Var(v) : v \in params} \cup CalcLiterals
    ELSE {Neg(b) : b \in BodyOfSize(n - 1, params)}
         \cup UNION {{BinOp(k, l, r) : k \in CalcKinds, l \in BodyOfSize(i, params),
                                       r \in BodyOfSize(n - 1 - i, params)} :
                        i \in 1..(n - 2)}

RECURSIVE CalcOfSize(_)
CalcOfSize(n) ==
    IF n = 1 THEN CalcLiterals
    ELSE {Neg(b) : b \in CalcOfSize(n - 1)}
         \cup UNION {{BinOp(k, l, r) : k \in CalcKinds, l \in CalcOfSize(i),
                                       r \in CalcOfSize(n - 1 - i)} : i \in 1..(n - 2)}
         \cup UNION {{App(Abs("x", b), a) : b \in BodyOfSize(j, {"x"}),
                                            a \in CalcOfSize(n - 2 - j)} : j \in 1..(n - 3)}
         \cup UNION {{App(App(Abs("x", Abs("y", b)), a1), a2) :
                            b \in BodyOfSize(j[1], {"x", "y"}),
                            a1 \in CalcOfSize(j[2]),
                            a2 \in CalcOfSize(n - 4 - j[1] - j[2])} :
                        j \in {k \in (1..n) \X (1..n) : k[1] + k[2] + 5 <= n}}

CalcTerms == UNION {CalcOfSize(n) : n \in 1..MaxCalcSize}

\* The terms linearize is called on: every node kind, one name, an integral
\* and a fractional literal.
LinLeaves == {Var("x"), Num(Float(2)), Num(Rat(1, 2))}

RECURSIVE LinOfSize(_)
LinOfSize(n) ==
    IF n = 1 THEN LinLeaves
    ELSE {Abs("x", b) : b \in LinOfSize(n - 1)}
         \cup {Neg(b) : b \in LinOfSize(n - 1)}
         \cup UNION {{BinOp(k, l, r) : k \in BinOpKinds \cup {"app"},
                                       l \in LinOfSize(i),
                                       r \in LinOfSize(n - 1 - i)} : i \in 1..(n - 2)}

\* Numbers that print through str(val) in full, in exponent notation, as a
\* long integer, or not at all.
LinTerms ==
    UNION {LinOfSize(n) : n \in 1..MaxLinSize}
        \cup {Num(FDiv(Float(1), Float(3))), Num(Rat(1, 16384)),
              Num(Rat(134217729, 134217728)), Num(FNeg(MaxFloat)), Num(Inf(1)), Num(NaN),
              BinOp("plus", Num(NaN), Num(Inf(1))), BinOp("div", Num(Inf(-1)), Num(NaN))}

(***************************************************************************)
(* The parse trees of the expressions of interpreter_test.py, and of the   *)
(* self-application Omega.                                                 *)
(***************************************************************************)
N(i) == Num(Float(i))
Id == Abs("x", Var("x"))
Sq == Abs("x", BinOp("times", Var("x"), Var("x")))

\* \x.(\y.y)x
NoReductionUnderLambda == Abs("x", App(Abs("y", Var("y")), Var("x")))
\* (\x.a x) ((\x.x)b)
CallByName == App(Abs("x", App(Var("a"), Var("x"))), App(Id, Var("b")))
\* (\x.x) (1--2)
SubNeg == App(Id, BinOp("minus", N(1), Neg(N(2))))
\* (\x.x) (1---2)
TripleNeg == App(Id, BinOp("minus", N(1), Neg(Neg(N(2)))))
\* (\x.x + 1) 5
AddInLambda == App(Abs("x", BinOp("plus", Var("x"), N(1))), N(5))
\* (\x.x * x) 3
MulInLambda == App(Sq, N(3))
\* (\x.\y.x + y) 3 4
CurriedAdd == App(App(Abs("x", Abs("y", BinOp("plus", Var("x"), Var("y")))), N(3)), N(4))
\* 1-2*3-4
OrderOfOps == BinOp("minus", BinOp("minus", N(1), BinOp("times", N(2), N(3))), N(4))
\* (\x.x * x) 2 * 3
AppPrecedence == BinOp("times", App(Sq, N(2)), N(3))
\* (\x.x * x) (-2) * (-3)
NegInApp == BinOp("times", App(Sq, Neg(N(2))), Neg(N(3)))
\* (\x.x) (---2)
TripleUnary == App(Id, Neg(Neg(Neg(N(2)))))
\* (\x.x) a
Identity == App(Id, Var("a"))
\* (\x.\y.x) a b
ConstFn == App(App(Abs("x", Abs("y", Var("x"))), Var("a")), Var("b"))
\* (\x.x) (\y.y)
FnApp == App(Id, Abs("y", Var("y")))
\* (\x.x * x + 1) 3
Complex1 == App(Abs("x", BinOp("plus", BinOp("times", Var("x"), Var("x")), N(1))), N(3))
\* (\x.\y.x * y + x) 2 3
Complex2 ==
    App(App(Abs("x", Abs("y", BinOp("plus", BinOp("times", Var("x"), Var("y")), Var("x")))),
            N(2)), N(3))
\* (\x.x) 5 + (\x.x) 3
AppWithArith == BinOp("plus", App(Id, N(5)), App(Id, N(3)))
\* 5 * 0
MulByZero == BinOp("times", N(5), N(0))
\* -0
NegZero == Neg(N(0))
\* (\x.x x) (\x.x x)
Omega == App(Abs("x", App(Var("x"), Var("x"))), Abs("x", App(Var("x"), Var("x"))))
\* (\x.\y.x y) y: the binder y must be renamed
Capture == App(Abs("x", Abs("y", App(Var("x"), Var("y")))), Var("y"))
\* (\x.\y.\Var1.x y Var1) y: the fresh name Var1 is a binder deeper in the body
CaptureDeep ==
    App(Abs("x", Abs("y", Abs("Var1", App(App(Var("x"), Var("y")), Var("Var1"))))), Var("y"))
\* (\x.x / 0) 1
DivByZero == App(Abs("x", BinOp("div", Var("x"), N(0))), N(1))

\* (\x.x) a ((\x.x) b): a redex in the function and one in the argument
TwoRedexes == App(App(Id, Var("a")), App(Id, Var("b")))
\* (\x.(\y.y) x) ((\x.x) b): a redex at the root, one in its body, one in its argument
NestedRedexes == App(NoReductionUnderLambda, App(Id, Var("b")))

\* Inputs whose arithmetic is not exact: 1 / 49 * 49, whose quotient is
\* rounded and whose product is 0.9999999999999999; the largest finite float
\* doubled, an infinity; a literal too long for a float, read as inf by
\* float(), minus itself, NaN.
FloatCorpus ==
    {BinOp("times", BinOp("div", N(1), N(49)), N(49)),
     BinOp("times", Num(MaxFloat), N(2)),
     BinOp("minus", Num(Inf(1)), Num(Inf(1)))}

\* Further pure inputs: terms with several redexes.
OrderCorpus == {TwoRedexes, NestedRedexes}

PureCorpus ==
    {NoReductionUnderLambda, CallByName, Identity, ConstFn, FnApp, Omega, Capture,
     CaptureDeep}

ArithCorpus ==
    {SubNeg, TripleNeg, AddInLambda, MulInLambda, CurriedAdd, OrderOfOps, AppPrecedence,
     NegInApp, TripleUnary, Complex1, Complex2, AppWithArith, MulByZero, NegZero,
     DivByZero}

\* What the session specification draws its calls from.
SessionPool == {Capture, CaptureDeep, Identity, SubNeg, DivByZero}

RECURSIVE IsPure(_)
IsPure(t) ==
    CASE t[1] = "var" -> TRUE
      [] t[1] = "abs" -> IsPure(t[3])
      [] t[1] = "app" -> IsPure(t[2]) /\ IsPure(t[3])
      [] OTHER -> FALSE

(***************************************************************************)
(* Initial states.                                                         *)
(***************************************************************************)
EnterEvaluate(f, t) ==
    /\ fn = f
    /\ args = <<t>>
    /\ expr = t
    /\ pc = "loop"
    /\ steps = 0
    /\ history = <<>>

InitEval ==
    \/ \E t \in PureTerms \cup PureCorpus \cup OrderCorpus : EnterEvaluate("evaluate_A2", t)
    \/ \E t \in PureTerms \cup PureCorpus \cup OrderCorpus
                    \cup ArithTerms \cup CalcTerms \cup ArithCorpus \cup FloatCorpus :
            EnterEvaluate("evaluate", t)

InitSession ==
    \/ \E t \in {u \in SessionPool : IsPure(u)} : EnterEvaluate("evaluate_A2", t)
    \/ \E t \in SessionPool : EnterEvaluate("evaluate", t)

\* The replacements substitute is called with: terms of at most two nodes.
Replacements ==
    {Var(v) : v \in SubstNames}
        \cup {Abs(v, Var(w)) : v \in SubstNames, w \in SubstNames}
        \cup {App(Var(v), Var(w)) : v \in SubstNames, w \in SubstNames}

\* Terms with arithmetic that Assignment3's substitute is called on.
ArithSubstTerms ==
    LET leaves == {Var(v) : v \in SubstNames} \cup {N(1)}
        ops == {BinOp(k, l, r) : k \in BinOpKinds, l \in leaves, r \in leaves}
                   \cup {Neg(l) : l \in leaves}
    IN  ops \cup {Abs(v, o) : v \in SubstNames, o \in ops}

\* The bodies of the abstractions applied in Capture and CaptureDeep.
CaptureBodies == {Capture[2][3], CaptureDeep[2][3]}

InitSubst ==
    \E f \in {"substitute", "substitute_A2"},
       t \in SubstTerms \cup CaptureBodies \cup ArithSubstTerms,
       x \in SubstNames, r \in Replacements :
        /\ f = "substitute_A2" => IsPure(t)
        /\ fn = f
        /\ args = <<t, x, r>>
        /\ expr = t
        /\ pc = "call"
        /\ steps = 0
        /\ history = <<>>

InitLinearize ==
    \E t \in LinTerms :
        /\ fn = "linearize"
        /\ args = <<t>>
        /\ expr = t
        /\ pc = "call"
        /\ steps = 0
        /\ history = <<>>

(***************************************************************************)
(* Actions.                                                                *)
(***************************************************************************)
\* Assignment3 evaluate, lines 276 and 285: a beta step.
LazyBeta ==
    /\ fn = "evaluate" /\ pc = "loop" /\ steps < MaxSteps
    /\ \E it \in {evaluate(expr)} :
        /\ it.did = "beta"
        /\ expr' = it.expr
        /\ pc' = it.pc
    /\ steps' = steps + 1
    /\ UNCHANGED <<fn, args, history>>

\* Assignment3 evaluate, lines 279 and 283: the fold pass changed the term.
LazyFold ==
    /\ fn = "evaluate" /\ pc = "loop" /\ steps < MaxSteps
    /\ \E it \in {evaluate(expr)} :
        /\ it.did = "fold"
        /\ expr' = it.expr
        /\ pc' = it.pc
    /\ steps' = steps + 1
    /\ UNCHANGED <<fn, args, history>>

\* Assignment3 evaluate, line 282: return expr.
LazyReturn ==
    /\ fn = "evaluate" /\ pc = "loop"
    /\ \E it \in {evaluate(expr)} :
        /\ it.did = "return"
        /\ expr' = it.expr
        /\ pc' = it.pc
    /\ UNCHANGED <<fn, args, steps, history>>

\* Assignment3 evaluate, line 279: the fold pass raises; main's except clause
\* (lines 444-445) ends the process with sys.exit(1) and prints nothing.
LazyRaise ==
    /\ fn = "evaluate" /\ pc = "loop"
    /\ \E it \in {evaluate(expr)} :
        /\ it.did = "raise"
        /\ pc' = it.pc
    /\ UNCHANGED <<fn, args, expr, steps, history>>

\* Assignment2 evaluate, lines 153 and 157.
EagerBeta ==
    /\ fn = "evaluate_A2" /\ pc = "loop" /\ steps < MaxSteps
    /\ \E it \in {evaluate_A2(expr)} :
        /\ it.did = "beta"
        /\ expr' = it.expr
        /\ pc' = it.pc
    /\ steps' = steps + 1
    /\ UNCHANGED <<fn, args, history>>

\* Assignment2 evaluate, line 156.
EagerReturn ==
    /\ fn = "evaluate_A2" /\ pc = "loop"
    /\ \E it \in {evaluate_A2(expr)} :
        /\ it.did = "return"
        /\ expr' = it.expr
        /\ pc' = it.pc
    /\ UNCHANGED <<fn, args, steps, history>>

\* The process calls evaluate again, on a term of S.
CallAgain(S) ==
    /\ fn \in {"evaluate", "evaluate_A2"} /\ pc = "done"
    /\ Len(history) + 1 < MaxCalls
    /\ \E t \in S :
        /\ fn = "evaluate_A2" => IsPure(t)
        /\ args' = <<t>>
        /\ expr' = t
    /\ history' = Append(history, <<args[1], expr>>)
    /\ pc' = "loop"
    /\ steps' = 0
    /\ UNCHANGED fn

\* evaluate is called on the term it has just returned.
Reevaluate == CallAgain({expr})

\* evaluate is called on any term of the pool, or on the term just returned.
NextCall == CallAgain(SessionPool \cup {expr})

\* One call of substitute, from its entry to its return.
SubstituteCall ==
    /\ fn \in {"substitute", "substitute_A2"} /\ pc = "call"
    /\ expr' = IF fn = "substitute"
               THEN substitute(args[1], args[2], args[3])
               ELSE substitute_A2(args[1], args[2], args[3])
    /\ pc' = "done"
    /\ UNCHANGED <<fn, args, steps, history>>

\* One call of linearize, from its entry to its return, expr then the string,
\* or to the exception that leaves it.
LinearizeCall ==
    /\ fn = "linearize" /\ pc = "call"
    /\ IF linearize_raises(args[1]) # <<>>
       THEN expr' = expr /\ pc' = "raised"
       ELSE expr' = linearize(args[1]) /\ pc' = "done"
    /\ UNCHANGED <<fn, args, steps, history>>

Step == LazyBeta \/ LazyFold \/ LazyReturn \/ LazyRaise \/ EagerBeta \/ EagerReturn

Next == Step \/ Reevaluate

Spec == InitEval /\ [][Next]_vars

NextSession == Step \/ NextCall

SpecSession == InitSession /\ [][NextSession]_vars

SpecSubst == InitSubst /\ [][SubstituteCall]_vars

SpecLinearize == InitLinearize /\ [][LinearizeCall]_vars

(***************************************************************************)
(* Vocabulary of the properties.                                           *)
(***************************************************************************)
InSubstitute == fn \in {"substitute", "substitute_A2"}
Returned == pc = "done"

\* free_variables of the running assignment.
FreeVars(t) == IF fn \in {"substitute_A2", "evaluate_A2"}
               THEN free_variables_A2(t) ELSE free_variables(t)

\* The nameless form of a term: an occurrence bound by the i-th enclosing
\* binder (counted from the innermost) becomes <<"bound", i>>, a free
\* occurrence keeps its name, and binders lose their names.  Two terms have
\* the same nameless form exactly when they differ only in the names of
\* their binders.
RECURSIVE Nameless(_, _)
Nameless(t, ctx) ==
    CASE t[1] = "var" ->
            IF \E i \in 1..Len(ctx) : ctx[i] = t[2]
            THEN <<"bound", CHOOSE i \in 1..Len(ctx) :
                                /\ ctx[i] = t[2]
                                /\ \A j \in 1..(i - 1) : ctx[j] # t[2]>>
            ELSE <<"free", t[2]>>
      [] t[1] = "abs" -> <<"lam", Nameless(t[3], <<t[2]>> \o ctx)>>
      [] t[1] = "num" -> t
      [] t[1] = "neg" -> <<"neg", Nameless(t[2], ctx)>>
      [] OTHER -> <<t[1], Nameless(t[2], ctx), Nameless(t[3], ctx)>>

\* Substitution on nameless forms: every free occurrence of x becomes nr, and
\* nothing else changes (nr has no bound index pointing outside itself).
RECURSIVE NamelessSubst(_, _, _)
NamelessSubst(nt, x, nr) ==
    CASE nt[1] = "free" -> IF nt[2] = x THEN nr ELSE nt
      [] nt[1] \in {"bound", "num"} -> nt
      [] nt[1] \in {"lam", "neg"} -> <<nt[1], NamelessSubst(nt[2], x, nr)>>
      [] OTHER -> <<nt[1], NamelessSubst(nt[2], x, nr), NamelessSubst(nt[3], x, nr)>>

(***************************************************************************)
(* C1.  For every t, x and r the free variables of substitute(t, x, r) are *)
(* (freeVars(t) \ {x}) united with freeVars(r) when x is free in t, and    *)
(* freeVars(t) \ {x} when it is not; so a fresh name VarK introduced by a  *)
(* renaming is never free in the result unless it was free in t or r.      *)
(***************************************************************************)
C1_FreeVarsOfSubstitute ==
    (InSubstitute /\ Returned) =>
        LET t == args[1]
            x == args[2]
            r == args[3]
        IN  FreeVars(expr) =
                (FreeVars(t) \ {x}) \cup (IF x \in FreeVars(t) THEN FreeVars(r) ELSE {})

\* \y.x y with x := y Var1: the binder is renamed to Var2, since Var1 is free in r.
C1_Witness ==
    /\ InSubstitute /\ Returned
    /\ args = <<Abs("y", App(Var("x"), Var("y"))), "x", App(Var("y"), Var("Var1"))>>
    /\ expr = Abs("Var2", App(App(Var("y"), Var("Var1")), Var("Var2")))

(***************************************************************************)
(* C2.  substitute is capture-avoiding: up to the names of binders,        *)
(* substitute(t, x, r) is t with every free occurrence of x replaced by r; *)
(* no variable free in r becomes bound and every bound occurrence stays    *)
(* bound by the same binder, also when the fresh name is a binder deeper   *)
(* in the body.  Substituting y for x in \y.x y gives \Var1.y Var1.        *)
(***************************************************************************)
C2_CaptureAvoiding ==
    (InSubstitute /\ Returned) =>
        /\ Nameless(expr, <<>>) =
               NamelessSubst(Nameless(args[1], <<>>), args[2], Nameless(args[3], <<>>))
        /\ args = <<Abs("y", App(Var("x"), Var("y"))), "x", Var("y")>>
               => expr = Abs("Var1", App(Var("y"), Var("Var1")))

\* \y.\Var1.x y Var1 with x := y: the outer binder becomes Var1, which forces
\* the inner binder Var1 to become Var2.
C2_Witness ==
    /\ InSubstitute /\ Returned
    /\ args = <<CaptureDeep[2][3], "x", Var("y")>>
    /\ expr = Abs("Var1", Abs("Var2", App(App(Var("y"), Var("Var1")), Var("Var2"))))

(***************************************************************************)
(* Positions: a position is the sequence of tuple indices that leads from  *)
(* the root to a subterm (2 and 3 for the children of app and of a binary  *)
(* operation, 2 for the operand of neg, 3 for the body of abs).            *)
(***************************************************************************)
NoTerm == <<"none">>

Children(t) ==
    CASE t[1] \in {"var", "num"} -> {}
      [] t[1] = "abs" -> {3}
      [] t[1] = "neg" -> {2}
      [] OTHER -> {2, 3}

RECURSIVE At(_, _)
At(t, p) ==
    IF p = <<>> THEN t
    ELSE IF t = NoTerm \/ Head(p) \notin Children(t) THEN NoTerm
    ELSE At(t[Head(p)], Tail(p))

RECURSIVE ReplaceAt(_, _, _)
ReplaceAt(t, p, s) ==
    IF p = <<>> THEN s
    ELSE [t EXCEPT ![Head(p)] = ReplaceAt(t[Head(p)], Tail(p), s)]

\* The children a walk may enter: all of them; all but the body of an
\* abstraction; all but the argument of an application; neither of the two
\* ("lazy"); or those of binary operations and negations only ("fold").
Through(t, walk) ==
    CASE walk = "outside binders" /\ t[1] = "abs" -> {}
      [] walk = "outside arguments" /\ t[1] = "app" -> {2}
      [] walk = "lazy" /\ t[1] = "abs" -> {}
      [] walk = "lazy" /\ t[1] = "app" -> {2}
      [] walk = "fold" /\ t[1] \in {"abs", "app"} -> {}
      [] OTHER -> Children(t)

RECURSIVE PositionsThrough(_, _)
PositionsThrough(t, walk) ==
    {<<>>} \cup UNION {{<<i>> \o q : q \in PositionsThrough(t[i], walk)} :
                            i \in Through(t, walk)}

Positions(t) == PositionsThrough(t, "all")
\* Positions that are not inside the body of any abstraction.
PositionsOutsideBinders(t) == PositionsThrough(t, "outside binders")
\* Positions that are not inside the argument of any application.
PositionsOutsideArguments(t) == PositionsThrough(t, "outside arguments")

Subterms(t) == {At(t, p) : p \in Positions(t)}

\* The result of contracting the redex App(Abs(x, body), arg).
Contractum(redex) == substitute(redex[2][3], redex[2][2], redex[3])

\* expr' is expr with the redex at one position of P contracted.
ContractsIn(P) ==
    \E p \in P :
        /\ is_redex(At(expr, p))
        /\ expr' = ReplaceAt(expr, p, Contractum(At(expr, p)))

InLazy == fn = "evaluate"
InEager == fn = "evaluate_A2"
LoopIteration == pc = "loop" /\ steps' = steps + 1
LazyBetaStep == InLazy /\ LoopIteration /\ evaluate(expr).did = "beta"
LazyFoldStep == InLazy /\ LoopIteration /\ evaluate(expr).did = "fold"

(***************************************************************************)
(* C3.  The lazy reducer never rewrites inside an abstraction body:        *)
(* reduce_redex returns every Abs(n, body) unchanged with reduced = False  *)
(* and the fold pass returns it unchanged; a beta step of evaluate         *)
(* contracts a redex that lies under no binder and a fold pass leaves      *)
(* every abstraction that lies under no binder where and as it was, so a   *)
(* term under a binder changes only when that binder is the function of    *)
(* the contracted redex or lies inside it.  evaluate(\x.(\y.y) x) returns  *)
(* its argument.                                                           *)
(***************************************************************************)
C3_AbsIsNormal ==
    InLazy =>
        /\ \A s \in Subterms(expr) :
                s[1] = "abs" => reduce_redex(s) = <<s, FALSE>> /\ evaluate_arithmetic(s) = s
        /\ args[1][1] = "abs" => expr = args[1] /\ steps = 0 /\ pc \in {"loop", "done"}

C3_StepOutsideBinders ==
    /\ LazyBetaStep => ContractsIn(PositionsOutsideBinders(expr))
    /\ LazyFoldStep =>
            \A p \in PositionsOutsideBinders(expr) :
                At(expr, p)[1] = "abs" => At(expr', p) = At(expr, p)

C3_NoReductionUnderLambda == []C3_AbsIsNormal /\ [][C3_StepOutsideBinders]_vars

C3_Witness ==
    /\ InLazy /\ Returned /\ history = <<>>
    /\ args[1] = NoReductionUnderLambda
    /\ expr = NoReductionUnderLambda

(***************************************************************************)
(* C4.  The lazy reducer never evaluates an argument: a beta step          *)
(* contracts a redex that lies inside no argument and puts                 *)
(* substitute(body, x, arg) in its place, with arg as it stood; for        *)
(* App(f, a) with f not an abstraction and no redex reachable in f,        *)
(* reduce_redex reports no reduction and returns the term unchanged, even  *)
(* when a holds a redex.  (\x.a x) ((\x.x) b) evaluates to a ((\x.x) b).   *)
(***************************************************************************)
C4_ArgumentKept ==
    InLazy =>
        /\ \A s \in Subterms(expr) :
                (s[1] = "app" /\ s[2][1] # "abs" /\ ~reduce_redex(s[2])[2])
                    => reduce_redex(s) = <<s, FALSE>>
        /\ (args[1] = CallByName /\ Returned)
                => expr = App(Var("a"), App(Id, Var("b")))

C4_StepOutsideArguments == LazyBetaStep => ContractsIn(PositionsOutsideArguments(expr))

C4_ArgumentsNeverEvaluated == []C4_ArgumentKept /\ [][C4_StepOutsideArguments]_vars

C4_Witness ==
    /\ InLazy /\ Returned /\ history = <<>>
    /\ args[1] = CallByName
    /\ is_redex(expr[3])
    /\ steps = 1

(***************************************************************************)
(* C5.  Whenever the normal-order evaluator of Assignment2 returns, the    *)
(* returned term holds no redex App(Abs(_, _), _) at any position, inside  *)
(* abstraction bodies and arguments included; \x.(\y.y) x evaluates to     *)
(* \x.x.                                                                   *)
(***************************************************************************)
C5_EagerResultHasNoRedex ==
    (InEager /\ Returned) =>
        /\ \A s \in Subterms(expr) : ~(s[1] = "app" /\ s[2][1] = "abs")
        /\ args[1] = NoReductionUnderLambda => expr = Id

C5_Witness ==
    /\ InEager /\ Returned /\ history = <<>>
    /\ args[1] = NoReductionUnderLambda
    /\ expr = Id
    /\ steps = 1

(***************************************************************************)
(* C6.  evaluate is idempotent, in both assignments: called on a term it   *)
(* has returned, evaluate returns that term again, without a reduction, a  *)
(* fold or an exception.                                                   *)
(***************************************************************************)
InEvaluate == InLazy \/ InEager
Body(e) == IF InEager THEN evaluate_A2(e) ELSE evaluate(e)

C6_Idempotent ==
    (InEvaluate /\ Len(history) >= 1 /\ args[1] = history[Len(history)][2]) =>
        /\ pc \in {"loop", "done"}
        /\ steps = 0
        /\ expr = args[1]
        /\ pc = "loop" => Body(expr).did = "return"

\* (\x.x * x + 1) 3 gave 10.0, and 10.0 gave 10.0.
C6_Witness ==
    /\ InLazy /\ Returned
    /\ Len(history) = 1
    /\ history[1] = <<Complex1, N(10)>>
    /\ args[1] = N(10) /\ expr = N(10)

(***************************************************************************)
(* C7.  Evaluation is deterministic and independent of the calls made      *)
(* before: fresh_variable(used) is the VarK with the least K >= 1 that is  *)
(* not in used, whatever was evaluated earlier, and two evaluations of the *)
(* same term return the same term, with other evaluations in between.      *)
(***************************************************************************)
C7_Deterministic ==
    /\ \A used \in SUBSET {"Var1", "Var2", "Var3", "x"} :
            \E k \in 1..4 :
                /\ fresh_variable(used) = Candidate(k)
                /\ Candidate(k) \notin used
                /\ \A j \in 1..(k - 1) : Candidate(j) \in used
    /\ \A i, j \in 1..Len(history) :
            history[i][1] = history[j][1] => history[i][2] = history[j][2]
    /\ Returned =>
            \A i \in 1..Len(history) : history[i][1] = args[1] => history[i][2] = expr

\* (\x.\y.x y) y, then (\x.x) (1--2), then (\x.\y.x y) y again.
C7_Witness ==
    /\ InEvaluate /\ Returned
    /\ Len(history) = 2
    /\ history[1] = <<Capture, Abs("Var1", App(Var("y"), Var("Var1")))>>
    /\ history[2][1] = SubNeg
    /\ args[1] = Capture
    /\ expr = history[1][2]

(***************************************************************************)
(* C8.  Folding and beta-reduction work together: for a closed term built  *)
(* from literals, plus, minus, times, neg and fully applied (possibly      *)
(* curried) abstractions whose bodies are arithmetic over their            *)
(* parameters, evaluate returns the Num of its arithmetic value, every     *)
(* application read as a function call.  (\x.x) (1--2) gives 3, 1-2*3-4    *)
(* gives -9, (\x.x*x+1) 3 gives 10, (\x.\y.x*y+x) 2 3 gives 8, 5*0 gives 0.*)
(***************************************************************************)
CalcOps == {"plus", "minus", "times"}

RECURSIVE IsBody(_, _)
IsBody(b, params) ==
    CASE b[1] = "var" -> b[2] \in params
      [] b[1] = "num" -> TRUE
      [] b[1] = "neg" -> IsBody(b[2], params)
      [] b[1] \in CalcOps -> IsBody(b[2], params) /\ IsBody(b[3], params)
      [] OTHER -> FALSE

RECURSIVE SpineHead(_)
SpineHead(t) == IF t[1] = "app" THEN SpineHead(t[2]) ELSE t

RECURSIVE SpineArgs(_)
SpineArgs(t) == IF t[1] = "app" THEN Append(SpineArgs(t[2]), t[3]) ELSE <<>>

\* h is n nested abstractions around an arithmetic body over their parameters.
RECURSIVE IsLambdaOf(_, _, _)
IsLambdaOf(h, n, params) ==
    IF n = 0 THEN IsBody(h, params)
    ELSE h[1] = "abs" /\ IsLambdaOf(h[3], n - 1, params \cup {h[2]})

RECURSIVE IsCalc(_)
IsCalc(t) ==
    CASE t[1] = "num" -> TRUE
      [] t[1] = "neg" -> IsCalc(t[2])
      [] t[1] \in CalcOps -> IsCalc(t[2]) /\ IsCalc(t[3])
      [] t[1] = "app" ->
            /\ IsLambdaOf(SpineHead(t), Len(SpineArgs(t)), {})
            /\ \A i \in 1..Len(SpineArgs(t)) : IsCalc(SpineArgs(t)[i])
      [] OTHER -> FALSE

\* The value of name n in an environment: a sequence of <<name, value>>
\* pairs, the innermost binding first.
Lookup(env, n) ==
    env[CHOOSE i \in 1..Len(env) :
            env[i][1] = n /\ \A j \in 1..(i - 1) : env[j][1] # n][2]

\* The arithmetic value: <<"n", value>> for a number, <<"fun", x, body, env>>
\* for a function.
RECURSIVE Denote(_, _)
Denote(t, env) ==
    CASE t[1] = "num" -> <<"n", t[2]>>
      [] t[1] = "var" -> Lookup(env, t[2])
      [] t[1] = "neg" -> <<"n", FNeg(Denote(t[2], env)[2])>>
      [] t[1] = "plus" -> <<"n", FAdd(Denote(t[2], env)[2], Denote(t[3], env)[2])>>
      [] t[1] = "minus" -> <<"n", FSub(Denote(t[2], env)[2], Denote(t[3], env)[2])>>
      [] t[1] = "times" -> <<"n", FMul(Denote(t[2], env)[2], Denote(t[3], env)[2])>>
      [] t[1] = "abs" -> <<"fun", t[2], t[3], env>>
      [] t[1] = "app" ->
            LET f == Denote(t[2], env)
                a == Denote(t[3], env)
            IN  Denote(f[3], <<<<f[2], a>>>> \o f[4])

C8_CalculatorValue ==
    (InLazy /\ IsCalc(args[1])) =>
        /\ pc \in {"loop", "done"}
        /\ (pc = "loop" /\ steps = MaxSteps) => evaluate(expr).did = "return"
        /\ Returned =>
            /\ expr = Num(Denote(args[1], <<>>)[2])
            /\ args[1] = SubNeg => expr = N(3)
            /\ args[1] = OrderOfOps => expr = N(-9)
            /\ args[1] = Complex1 => expr = N(10)
            /\ args[1] = Complex2 => expr = N(8)
            /\ args[1] = MulByZero => expr = N(0)

\* (\x.\y.x * y + x) 2 3: two beta steps, one fold pass, 8.0.
C8_Witness ==
    /\ InLazy /\ Returned /\ history = <<>>
    /\ args[1] = Complex2
    /\ expr = N(8)
    /\ steps = 3

(***************************************************************************)
(* C9.  Division by zero is not an error: the fold pass makes a Num of     *)
(* Div(Num a, Num 0) and evaluation goes on to a normal form that is       *)
(* printed; no exception and no non-zero exit follow from it.              *)
(***************************************************************************)
C9_DivisionByZeroIsNoError == InLazy => pc # "raised"

(***************************************************************************)
(* C10.  Divergence is not detected and no iteration bound exists: on      *)
(* Omega = (\x.x x) (\x.x x) every step reports reduced = True and gives   *)
(* Omega again, so under both strategies evaluate stays in its loop: it    *)
(* neither returns nor raises.                                             *)
(***************************************************************************)
C10_OmegaDiverges ==
    (InEvaluate /\ args[1] = Omega) =>
        /\ pc = "loop"
        /\ expr = Omega
        /\ Body(expr) = [pc |-> "loop", expr |-> Omega, did |-> "beta"]
        /\ reduce_redex(expr) = <<Omega, TRUE>>
        /\ reduce_redex_A2(expr) = <<Omega, TRUE>>

\* The normal-order evaluator after as many steps on Omega as the model follows.
C10_Witness ==
    /\ InEager /\ args[1] = Omega
    /\ steps = MaxSteps
    /\ pc = "loop" /\ expr = Omega

(***************************************************************************)
(* Redex positions and their order.                                        *)
(***************************************************************************)
\* reduce_redex and the contractum of the running assignment.
Reduce(e) == IF InEager THEN reduce_redex_A2(e) ELSE reduce_redex(e)

ContractumOf(redex) ==
    IF InEager THEN substitute_A2(redex[2][3], redex[2][2], redex[3])
    ELSE Contractum(redex)

\* The positions of the redexes a walk meets.
RedexPositions(t, walk) == {p \in PositionsThrough(t, walk) : is_redex(At(t, p))}

\* The walk of the strategy of the running assignment.
StrategyWalk == IF InEager THEN "all" ELSE "lazy"

IsPrefix(q, p) == Len(q) <= Len(p) /\ SubSeq(p, 1, Len(q)) = q

\* q comes before p in the pre-order, left-to-right traversal.
Precedes(q, p) ==
    /\ q # p
    /\ \/ IsPrefix(q, p)
       \/ /\ ~IsPrefix(p, q)
          /\ LET i == CHOOSE k \in 1..Len(q) :
                            /\ k <= Len(p)
                            /\ q[k] # p[k]
                            /\ \A j \in 1..(k - 1) : q[j] = p[j]
             IN  q[i] < p[i]

\* The first redex of the pre-order traversal.
FirstRedex(t) ==
    CHOOSE p \in RedexPositions(t, "all") :
        \A q \in RedexPositions(t, "all") : q = p \/ Precedes(p, q)

(***************************************************************************)
(* C11.  reduce_redex performs at most one reduction and reports it as a   *)
(* boolean: in both assignments it returns either (t, False) with the term *)
(* unchanged, or (t', True) where t' is t with one redex occurrence        *)
(* replaced by substitute(body, x, arg) and everything outside it          *)
(* unchanged; it returns False exactly when the strategy reaches no redex. *)
(***************************************************************************)
C11_AtMostOneReduction ==
    InEvaluate =>
        LET rr == Reduce(expr)
            R == RedexPositions(expr, StrategyWalk)
        IN  /\ Len(rr) = 2 /\ rr[2] \in BOOLEAN
            /\ rr[2] <=> R # {}
            /\ ~rr[2] => rr[1] = expr
            /\ rr[2] => \E p \in R : rr[1] = ReplaceAt(expr, p, ContractumOf(At(expr, p)))

\* (\x.x) 5 + (\x.x) 3 after one step: the left redex is gone, the right one stands.
C11_Witness ==
    /\ InLazy /\ pc = "loop" /\ history = <<>>
    /\ args[1] = AppWithArith
    /\ steps = 1
    /\ expr = BinOp("plus", N(5), App(Id, N(3)))

(***************************************************************************)
(* C12.  The reducer of Assignment2 contracts the leftmost-outermost       *)
(* redex, the first one of a pre-order, left-to-right traversal: a redex   *)
(* at the root is contracted there; in App(f, a) a redex inside f is       *)
(* contracted and a kept, a redex inside a is contracted only when f holds *)
(* none; in Abs(n, body) the search goes on in body.                       *)
(***************************************************************************)
C12_LeftmostOutermost ==
    InEager =>
        /\ RedexPositions(expr, "all") # {} =>
                reduce_redex_A2(expr) =
                    <<ReplaceAt(expr, FirstRedex(expr),
                                substitute_A2(At(expr, FirstRedex(expr))[2][3],
                                              At(expr, FirstRedex(expr))[2][2],
                                              At(expr, FirstRedex(expr))[3])), TRUE>>
        /\ \A s \in Subterms(expr) :
                /\ is_redex(s) =>
                        reduce_redex_A2(s) = <<substitute_A2(s[2][3], s[2][2], s[3]), TRUE>>
                /\ (s[1] = "app" /\ ~is_redex(s) /\ RedexPositions(s[2], "all") # {}) =>
                        reduce_redex_A2(s) = <<App(reduce_redex_A2(s[2])[1], s[3]), TRUE>>
                /\ (s[1] = "app" /\ ~is_redex(s) /\ RedexPositions(s[2], "all") = {}
                        /\ RedexPositions(s[3], "all") # {}) =>
                        reduce_redex_A2(s) = <<App(s[2], reduce_redex_A2(s[3])[1]), TRUE>>
                /\ (s[1] = "abs" /\ RedexPositions(s[3], "all") # {}) =>
                        reduce_redex_A2(s) = <<Abs(s[2], reduce_redex_A2(s[3])[1]), TRUE>>

\* (\x.x) a ((\x.x) b) after one step: the redex in the function went first.
C12_Witness ==
    /\ InEager /\ pc = "loop" /\ history = <<>>
    /\ args[1] = TwoRedexes
    /\ steps = 1
    /\ expr = App(Var("a"), App(Id, Var("b")))

(***************************************************************************)
(* C13.  The evaluator of Assignment3 returns only at a joint fixpoint:    *)
(* for a returned term r, reduce_redex(r) = (r, False) and                 *)
(* evaluate_arithmetic(r) = r; an iteration returns only from such a term, *)
(* and an iteration whose fold pass changes the term stays in the loop,    *)
(* which tries a beta step again before it can return.                     *)
(***************************************************************************)
C13_ReturnsAtFixpoint ==
    (InLazy /\ Returned) =>
        /\ reduce_redex(expr) = <<expr, FALSE>>
        /\ evaluate_arithmetic(expr) = expr

C13_FoldGoesBackToLoop ==
    (InLazy /\ pc = "loop") =>
        /\ pc' = "done" =>
                /\ ~reduce_redex(expr)[2]
                /\ evaluate_arithmetic(expr) = expr
                /\ expr' = expr
        /\ (~reduce_redex(expr)[2] /\ expr' # expr) =>
                /\ expr' = evaluate_arithmetic(expr)
                /\ pc' = "loop"
                /\ steps' = steps + 1

C13_JointFixpoint == []C13_ReturnsAtFixpoint /\ [][C13_FoldGoesBackToLoop]_vars

\* (\x.x * x) (-2) * (-3): a beta step, a fold pass, and the return of -12.0.
C13_Witness ==
    /\ InLazy /\ Returned /\ history = <<>>
    /\ args[1] = NegInApp
    /\ expr = N(-12)
    /\ steps = 2

(***************************************************************************)
(* C14.  Beta-reduction has priority over folding and reduce_redex never   *)
(* folds: while reduce_redex reports a reduction the iteration is that     *)
(* beta step, so the fold pass runs only when no redex is reported;        *)
(* reduce_redex leaves every BinOp and Neg node a node of that kind, also  *)
(* when its operands are Num; for a BinOp it contracts a redex of the left *)
(* operand, and one of the right operand only when the left has none.      *)
(* (\x.x) 5 + (\x.x) 3 takes two beta steps, left then right, and then     *)
(* folds to 8.                                                             *)
(***************************************************************************)
C14_StepNeverFolds ==
    InLazy =>
        /\ \A s \in Subterms(expr) :
                /\ s[1] \in BinOpKinds \cup {"neg"} => reduce_redex(s)[1][1] = s[1]
                /\ s[1] \in BinOpKinds =>
                        reduce_redex(s) =
                            IF reduce_redex(s[2])[2]
                            THEN <<BinOp(s[1], reduce_redex(s[2])[1], s[3]), TRUE>>
                            ELSE IF reduce_redex(s[3])[2]
                            THEN <<BinOp(s[1], s[2], reduce_redex(s[3])[1]), TRUE>>
                            ELSE <<s, FALSE>>
        /\ (args[1] = AppWithArith /\ history = <<>>) =>
                /\ steps = 0 => expr = AppWithArith
                /\ steps = 1 => expr = BinOp("plus", N(5), App(Id, N(3)))
                /\ steps = 2 => expr = BinOp("plus", N(5), N(3))
                /\ steps = 3 => expr = N(8)
                /\ steps <= 3
                /\ Returned => steps = 3

C14_BetaBeforeFold ==
    (InLazy /\ pc = "loop" /\ reduce_redex(expr)[2]) =>
        /\ pc' = "loop"
        /\ expr' = reduce_redex(expr)[1]

C14_BetaHasPriority == []C14_StepNeverFolds /\ [][C14_BetaBeforeFold]_vars

\* (\x.x) 5 + (\x.x) 3 after its two beta steps, before the fold pass.
C14_Witness ==
    /\ InLazy /\ pc = "loop" /\ history = <<>>
    /\ args[1] = AppWithArith
    /\ steps = 2
    /\ expr = BinOp("plus", N(5), N(3))

(***************************************************************************)
(* The fold pass, specified from the top: a subtree made of numbers,       *)
(* binary operations and negations only is a numeric tree and has a value. *)
(***************************************************************************)
ArithKinds == BinOpKinds \cup {"neg"}

\* The positions the fold pass reaches: through BinOp and Neg nodes only.
FoldPositions(t) == PositionsThrough(t, "fold")

\* A BinOp or Neg node all of whose operands are Num.
Foldable(s) ==
    \/ s[1] \in BinOpKinds /\ is_numeric(s[2]) /\ is_numeric(s[3])
    \/ s[1] = "neg" /\ is_numeric(s[2])

RECURSIVE NumericTree(_)
NumericTree(s) ==
    CASE s[1] = "num" -> TRUE
      [] s[1] = "neg" -> NumericTree(s[2])
      [] s[1] \in BinOpKinds -> NumericTree(s[2]) /\ NumericTree(s[3])
      [] OTHER -> FALSE

Undefined == <<"undefined">>

\* The value of a numeric tree; Undefined when it divides by zero.
RECURSIVE Value(_)
Value(s) ==
    CASE s[1] = "num" -> s[2]
      [] s[1] = "neg" -> IF Value(s[2]) = Undefined THEN Undefined ELSE FNeg(Value(s[2]))
      [] OTHER ->
            IF Value(s[2]) = Undefined \/ Value(s[3]) = Undefined THEN Undefined
            ELSE IF s[1] = "div" /\ DivRaises(Value(s[2]), Value(s[3])) THEN Undefined
            ELSE Arith(s[1], Value(s[2]), Value(s[3]))

\* Every numeric tree the fold pass reaches replaced by the Num of its value.
RECURSIVE Folded(_)
Folded(s) ==
    IF NumericTree(s) THEN Num(Value(s))
    ELSE CASE s[1] \in BinOpKinds -> BinOp(s[1], Folded(s[2]), Folded(s[3]))
           [] s[1] = "neg" -> Neg(Folded(s[2]))
           [] OTHER -> s

\* The fold pass reaches a numeric tree that divides by zero.
DividesByZero(t) ==
    \E p \in FoldPositions(t) : NumericTree(At(t, p)) /\ Value(At(t, p)) = Undefined

(***************************************************************************)
(* C15.  The fold pass replaces a BinOp/Neg node by a Num exactly when all *)
(* of its operands are Num once folded: every such node of the term is     *)
(* collapsed to the Num of its operator's result, so that a term evaluate  *)
(* returns holds no BinOp/Neg node all of whose operands are Num, and no   *)
(* node with a non-Num operand becomes a Num.  (As stated: for every node  *)
(* of the term, wherever it lies.)                                         *)
(***************************************************************************)
C15_FoldCollapsesEveryNode ==
    InLazy =>
        /\ (pc = "loop" /\ ~reduce_redex(expr)[2] /\ ~IsRaise(evaluate_arithmetic(expr))) =>
                \A s \in Subterms(evaluate_arithmetic(expr)) : ~Foldable(s)
        /\ Returned => \A s \in Subterms(expr) : ~Foldable(s)

(***************************************************************************)
(* C15, amended.  The fold pass reaches the nodes that lie under BinOp and *)
(* Neg nodes only (it enters neither an Abs body nor an App); among those  *)
(* it replaces a BinOp/Neg node by a Num exactly when all of its operands  *)
(* are Num once folded, by the Num of its operator's result, and changes   *)
(* nothing else; a reached Div whose operands fold to Num with a zero      *)
(* divisor makes the pass raise ZeroDivisionError (C9).  A term evaluate   *)
(* returns holds no reached BinOp/Neg node all of whose operands are Num.  *)
(***************************************************************************)
C15_FoldCollapsesReachedNodes ==
    InLazy =>
        /\ IsRaise(evaluate_arithmetic(expr)) <=> DividesByZero(expr)
        /\ ~DividesByZero(expr) => evaluate_arithmetic(expr) = Folded(expr)
        /\ \A p \in FoldPositions(expr) :
                (At(expr, p)[1] \in ArithKinds /\ ~DividesByZero(At(expr, p))) =>
                    (is_numeric(evaluate_arithmetic(At(expr, p)))
                        <=> \A i \in Children(At(expr, p)) :
                                is_numeric(evaluate_arithmetic(At(expr, p)[i])))
        /\ Returned => \A p \in FoldPositions(expr) : ~Foldable(At(expr, p))

\* 1-2*3-4: one fold pass collapses the three nodes, innermost first, to -9.0.
C15_Witness ==
    /\ InLazy /\ Returned /\ history = <<>>
    /\ args[1] = OrderOfOps
    /\ expr = N(-9)
    /\ steps = 1

(***************************************************************************)
(* C16.  linearize renders Times and Div with the same parenthesization    *)
(* rule: a side is wrapped in parentheses if and only if it is a Plus,     *)
(* Minus, Div, Neg, App or Abs node, so a nested Times on either side is   *)
(* not wrapped (nor is a Var or a Num); the sides are joined by " * " and  *)
(* " / ".                                                                  *)
(***************************************************************************)
InLinearize == fn = "linearize"

\* The string of a side that is wrapped exactly when its kind is in wrapped.
Side(x, wrapped) ==
    IF x[1] \in wrapped THEN "(" \o linearize(x) \o ")" ELSE linearize(x)

TimesWrapped == {"plus", "minus", "div", "neg", "app", "abs"}

C16_TimesAndDivSameRule ==
    (InLinearize /\ Returned) =>
        /\ args[1][1] = "times" =>
                expr = Side(args[1][2], TimesWrapped) \o " * " \o Side(args[1][3], TimesWrapped)
        /\ args[1][1] = "div" =>
                expr = Side(args[1][2], TimesWrapped) \o " / " \o Side(args[1][3], TimesWrapped)

(***************************************************************************)
(* C16, amended.  linearize wraps a side of Times if and only if the side  *)
(* is a Plus, Minus, Div, Neg, App or Abs node (a nested Times is not      *)
(* wrapped), and wraps a side of Div if and only if it is a Plus, Minus,   *)
(* Times, Div, Neg, App or Abs node (a nested Times is wrapped as well);   *)
(* Var and Num sides are never wrapped; the sides are joined by " * " and  *)
(* " / ".                                                                  *)
(***************************************************************************)
DivWrapped == TimesWrapped \cup {"times"}

C16_TimesAndDivRules ==
    (InLinearize /\ Returned) =>
        /\ args[1][1] = "times" =>
                expr = Side(args[1][2], TimesWrapped) \o " * " \o Side(args[1][3], TimesWrapped)
        /\ args[1][1] = "div" =>
                expr = Side(args[1][2], DivWrapped) \o " / " \o Side(args[1][3], DivWrapped)
        /\ args[1] = BinOp("times", BinOp("times", N(2), Var("x")), Var("x"))
                => expr = "2.0 * x * x"
        /\ args[1] = BinOp("times", Var("x"), BinOp("div", Var("x"), N(2)))
                => expr = "x * (x / 2.0)"
        /\ args[1] = BinOp("div", BinOp("times", N(2), Var("x")), Var("x"))
                => expr = "(2.0 * x) / x"
        /\ args[1] = BinOp("div", Var("x"), Num(Rat(1, 2)))
                => expr = "x / 0.5"

\* x / (2 * x): the nested multiplication is wrapped.
C16_Witness ==
    /\ InLinearize /\ Returned
    /\ args[1] = BinOp("div", Var("x"), BinOp("times", N(2), Var("x")))
    /\ expr = "x / (2.0 * x)"

(***************************************************************************)
(* An evaluator that interleaves: each iteration is one beta step          *)
(* (reduce_redex) or the fold of one BinOp/Neg node that the fold pass     *)
(* reaches and whose operands are Num, in any order; it returns when       *)
(* neither is possible.  The fold of one node is the arithmetic of         *)
(* evaluate_arithmetic on Num operands.                                    *)
(***************************************************************************)
InInterleaved == fn = "interleaved"

FoldNode(s) ==
    IF s[1] = "neg" THEN Num(FNeg(get_numeric_value(s[2])))
    ELSE IF s[1] = "div" /\ DivRaises(get_numeric_value(s[2]), get_numeric_value(s[3]))
    THEN ZeroDivisionError
    ELSE Num(Arith(s[1], get_numeric_value(s[2]), get_numeric_value(s[3])))

FoldablePositions(t) == {p \in FoldPositions(t) : Foldable(At(t, p))}

\* 2/0 - (\x.x x) (\x.x x): a division by zero beside a term that diverges
DivByZeroDiverges == BinOp("minus", BinOp("div", N(2), N(0)), Omega)

InitInterleaved ==
    \E t \in ArithTerms \cup CalcTerms \cup ArithCorpus \cup PureCorpus \cup FloatCorpus
                \cup {DivByZeroDiverges} :
        /\ fn = "interleaved"
        /\ args = <<t>>
        /\ expr = t
        /\ pc = "loop"
        /\ steps = 0
        /\ history = <<>>

InterleavedBeta ==
    /\ InInterleaved /\ pc = "loop" /\ steps < MaxInterleavedSteps
    /\ reduce_redex(expr)[2]
    /\ expr' = reduce_redex(expr)[1]
    /\ steps' = steps + 1
    /\ UNCHANGED <<fn, args, pc, history>>

InterleavedFold ==
    /\ InInterleaved /\ pc = "loop" /\ steps < MaxInterleavedSteps
    /\ \E p \in FoldablePositions(expr) :
            \E folded \in {FoldNode(At(expr, p))} :
                /\ ~IsRaise(folded)
                /\ expr' = ReplaceAt(expr, p, folded)
    /\ steps' = steps + 1
    /\ UNCHANGED <<fn, args, pc, history>>

InterleavedRaise ==
    /\ InInterleaved /\ pc = "loop"
    /\ \E p \in FoldablePositions(expr) : IsRaise(FoldNode(At(expr, p)))
    /\ pc' = "raised"
    /\ UNCHANGED <<fn, args, expr, steps, history>>

InterleavedReturn ==
    /\ InInterleaved /\ pc = "loop"
    /\ ~reduce_redex(expr)[2]
    /\ FoldablePositions(expr) = {}
    /\ pc' = "done"
    /\ UNCHANGED <<fn, args, expr, steps, history>>

NextInterleaved ==
    InterleavedBeta \/ InterleavedFold \/ InterleavedRaise \/ InterleavedReturn

SpecInterleaved == InitInterleaved /\ [][NextInterleaved]_vars

\* The BinOp and Neg nodes of a term.
RECURSIVE OpCount(_)
OpCount(t) ==
    CASE t[1] \in {"var", "num"} -> 0
      [] t[1] = "abs" -> OpCount(t[3])
      [] t[1] = "neg" -> 1 + OpCount(t[2])
      [] t[1] = "app" -> OpCount(t[2]) + OpCount(t[3])
      [] OTHER -> 1 + OpCount(t[2]) + OpCount(t[3])

\* The run of the code's evaluate on e: its outcome ("done", "raised", or
\* "running" when fuel iterations did not end it), the term it ends with, its
\* beta steps and the nodes its fold passes collapsed.
RECURSIVE CodeRun(_, _, _, _)
CodeRun(e, fuel, betas, folds) ==
    IF fuel = 0
    THEN [outcome |-> "running", expr |-> e, betas |-> betas, folds |-> folds]
    ELSE LET it == evaluate(e)
         IN  CASE it.did = "beta" -> CodeRun(it.expr, fuel - 1, betas + 1, folds)
               [] it.did = "fold" ->
                    CodeRun(it.expr, fuel - 1, betas, folds + OpCount(e) - OpCount(it.expr))
               [] it.did = "return" ->
                    [outcome |-> "done", expr |-> e, betas |-> betas, folds |-> folds]
               [] it.did = "raise" ->
                    [outcome |-> "raised", expr |-> e, betas |-> betas, folds |-> folds]

RunFuel == MaxInterleavedSteps + 2

(***************************************************************************)
(* C17.  The order of folds and beta steps does not matter: the            *)
(* interleaving evaluator returns exactly when the code's evaluate         *)
(* returns, and then returns the same term.  When the code returns r after *)
(* b beta steps and folds of f nodes, every interleaved run takes b + f    *)
(* steps, raises nothing and returns r; when an interleaved run returns,   *)
(* the code returns; when the code raises, no interleaved run returns:     *)
(* each one raises, after no more beta steps than the code took.           *)
(***************************************************************************)
C17_OrderIndependent ==
    InInterleaved =>
        LET c == CodeRun(args[1], RunFuel, 0, 0)
        IN  /\ c.outcome = "done" =>
                    /\ pc \in {"loop", "done"}
                    /\ steps <= c.betas + c.folds
                    /\ (pc = "loop" /\ steps = c.betas + c.folds) =>
                            ~reduce_redex(expr)[2] /\ FoldablePositions(expr) = {}
                    /\ Returned => expr = c.expr /\ steps = c.betas + c.folds
            /\ Returned => c.outcome = "done"
            /\ c.outcome = "raised" =>
                    /\ pc \in {"loop", "raised"}
                    /\ steps <= c.betas + c.folds + OpCount(c.expr)

\* (\x.x * x) (-2) * (-3), folding -3 before the beta step: six steps, -12.0.
C17_Witness ==
    /\ InInterleaved /\ Returned
    /\ args[1] = NegInApp
    /\ expr = N(-12)
    /\ steps = 6

(***************************************************************************)
(* The normal-order sequence of a term.                                    *)
(***************************************************************************)
\* The term after k steps of Assignment2's evaluate (its normal form, when
\* that is reached earlier).
RECURSIVE EagerAfter(_, _)
EagerAfter(t, k) ==
    IF k = 0 \/ ~reduce_redex_A2(t)[2] THEN t
    ELSE EagerAfter(reduce_redex_A2(t)[1], k - 1)

\* The steps Assignment2's evaluate takes before it returns; -1 when it has
\* not returned after fuel steps.
RECURSIVE EagerSteps(_, _)
EagerSteps(t, fuel) ==
    IF ~reduce_redex_A2(t)[2] THEN 0
    ELSE IF fuel = 0 THEN -1
    ELSE LET n == EagerSteps(reduce_redex_A2(t)[1], fuel - 1)
         IN  IF n = -1 THEN -1 ELSE n + 1

(***************************************************************************)
(* C18.  On pure terms (Var, Abs, App) the lazy reducer is a restriction   *)
(* of the normal-order one: when Assignment3's reduce_redex returns        *)
(* (t', True), Assignment2's returns the same (t', True).  So the lazy     *)
(* evaluation sequence of a term is a prefix of its normal-order sequence, *)
(* and the lazy evaluate returns on every pure term on which the           *)
(* normal-order evaluate returns, after no more steps.                     *)
(***************************************************************************)
C18_LazyRestrictsEager ==
    /\ (InEvaluate /\ IsPure(expr) /\ reduce_redex(expr)[2]) =>
            reduce_redex_A2(expr) = reduce_redex(expr)
    /\ (InLazy /\ IsPure(args[1])) =>
            /\ IsPure(expr)
            /\ expr = EagerAfter(args[1], steps)
            /\ EagerSteps(args[1], MaxSteps) # -1 =>
                    /\ pc \in {"loop", "done"}
                    /\ steps <= EagerSteps(args[1], MaxSteps)
                    /\ (pc = "loop" /\ steps = EagerSteps(args[1], MaxSteps)) =>
                            evaluate(expr).did = "return"

\* (\x.x) a ((\x.x) b): the lazy evaluate returns after the first of the two
\* steps of the normal-order sequence.
C18_Witness ==
    /\ InLazy /\ Returned /\ history = <<>>
    /\ args[1] = TwoRedexes
    /\ steps = 1
    /\ expr = App(Var("a"), App(Id, Var("b")))
    /\ EagerSteps(args[1], MaxSteps) = 2

====
